---------------------------- MODULE Spec2Model ----------------------------
(***************************************************************************)
(* VeoPromptExporter: the prompt pipeline (parser, enhancer, validator,    *)
(* transformer, export engine) and its orchestrator, as state machines.    *)
(*                                                                         *)
(* JavaScript strings that the code inspects character by character        *)
(* (prompt content, phrases, tags, parameter values) are sequences of      *)
(* one-character strings; identifiers that the code only compares or uses  *)
(* as object keys (platform, format, status) are TLA+ strings.             *)
(***************************************************************************)
EXTENDS Integers, Sequences, FiniteSets, TLC

VARIABLES
  classes,          \* the component classes the orchestrator instantiates:
                    \* the modules, or the placeholders of its own file
  pc,               \* exportPrompt / batchProcessFolder: the stage about to run
  options,          \* ... the argument of the call
  parsedPrompt,     \* ... exportPrompt's locals
  enhancedPrompt,
  validationResult,
  formattedPrompt,
  exportResult,
  outcome,          \* ... the value returned or the error thrown
  trace,            \* the calls of the pipeline's components and how each ended
  response,         \* the responses the server's route has sent for the call
  vPc,          \* PromptValidator.validate: the check about to run
  vPrompt,      \* ... its argument prompt
  vPlatform,    \* ... its argument platform
  vResult,      \* ... its local `result`
  tPc,          \* FormatTransformer.transform: "ready" or "returned"
  tPrompt,      \* ... its argument prompt
  tPlatform,    \* ... its argument platform
  tFormat,      \* ... its argument format
  tResult,      \* ... the value it returned
  ePc,              \* ExportEngine.export: "format", "upload", "returned", "thrown"
  ePrompt,          \* ... its argument prompt
  eFormat,          \* ... its argument format
  eIncludeMetadata, \* ... its argument includeMetadata
  eParams,          \* ... the argument it passes to provider.upload
  eResult,          \* ... the value it returned or the error thrown
  nPc,          \* PromptParser._normalizeContent: "ready" or "returned"
  nMaxLength,   \* ... config.maxPromptLength of the parser
  nContent,     \* ... its argument content
  nResult,      \* ... the value it returned
  pPc,          \* PromptParser.parse: "ready", "returned" or "thrown"
  pContent,     \* ... its argument content
  pSourceType,  \* ... its argument sourceType
  pResult       \* ... the value it returned or the error thrown

validatorVars == <<vPc, vPrompt, vPlatform, vResult>>
transformerVars == <<tPc, tPrompt, tPlatform, tFormat, tResult>>

engineVars == <<ePc, ePrompt, eFormat, eIncludeMetadata, eParams, eResult>>
normalizeVars == <<nPc, nMaxLength, nContent, nResult>>

parseVars == <<pPc, pContent, pSourceType, pResult>>

unitVars == <<validatorVars, transformerVars, engineVars, normalizeVars, parseVars>>
pipelineVars == <<classes, pc, options, parsedPrompt, enhancedPrompt, validationResult,
                  formattedPrompt, exportResult, outcome, trace, response>>

vars == <<pipelineVars, unitVars>>

-----------------------------------------------------------------------------
(* JavaScript values                                                       *)

\* The value of a property that an object does not have.
Undefined == "#undefined"

Min(a, b) == IF a < b THEN a ELSE b

UpperCaseLetters ==
  {"A","B","C","D","E","F","G","H","I","J","K","L","M",
   "N","O","P","Q","R","S","T","U","V","W","X","Y","Z"}

LowerCaseLetters ==
  {"a","b","c","d","e","f","g","h","i","j","k","l","m",
   "n","o","p","q","r","s","t","u","v","w","x","y","z"}

Digits == {"0","1","2","3","4","5","6","7","8","9"}

DigitValue ==
  [d \in Digits |->
     CASE d = "0" -> 0 [] d = "1" -> 1 [] d = "2" -> 2 [] d = "3" -> 3
       [] d = "4" -> 4 [] d = "5" -> 5 [] d = "6" -> 6 [] d = "7" -> 7
       [] d = "8" -> 8 [] d = "9" -> 9]

LowerOf ==
  [c \in UpperCaseLetters |->
     CASE c = "A" -> "a" [] c = "B" -> "b" [] c = "C" -> "c" [] c = "D" -> "d"
       [] c = "E" -> "e" [] c = "F" -> "f" [] c = "G" -> "g" [] c = "H" -> "h"
       [] c = "I" -> "i" [] c = "J" -> "j" [] c = "K" -> "k" [] c = "L" -> "l"
       [] c = "M" -> "m" [] c = "N" -> "n" [] c = "O" -> "o" [] c = "P" -> "p"
       [] c = "Q" -> "q" [] c = "R" -> "r" [] c = "S" -> "s" [] c = "T" -> "t"
       [] c = "U" -> "u" [] c = "V" -> "v" [] c = "W" -> "w" [] c = "X" -> "x"
       [] c = "Y" -> "y" [] c = "Z" -> "z"]

\* String.prototype.toLowerCase, on ASCII text.
ToLowerCase(s) ==
  [i \in 1..Len(s) |-> IF s[i] \in UpperCaseLetters THEN LowerOf[s[i]] ELSE s[i]]

\* String.prototype.includes(p).
Includes(s, p) ==
  \E i \in 0..(Len(s) - Len(p)) : \A j \in 1..Len(p) : s[i + j] = p[j]

\* String.prototype.substring(0, n).
Substring0(s, n) == SubSeq(s, 1, Min(n, Len(s)))

\* The regular-expression classes \s, \w / [a-z0-9_] under the i flag, and \d.
IsSpace(c) == c \in {" ", "\n", "\r", "\t"}
IsWordChar(c) == c \in LowerCaseLetters \cup UpperCaseLetters \cup Digits \cup {"_"}
IsDigit(c) == c \in Digits

\* The index of the last character of the maximal run of word characters
\* (of non-space characters, of digits) that starts at index i; i - 1 when the
\* run is empty.
WordRunEnd(s, i) ==
  IF i > Len(s) THEN i - 1
  ELSE IF \A k \in i..Len(s) : IsWordChar(s[k]) THEN Len(s)
  ELSE (CHOOSE k \in i..Len(s) :
          /\ ~IsWordChar(s[k])
          /\ \A m \in i..(k - 1) : IsWordChar(s[m])) - 1

NonSpaceRunEnd(s, i) ==
  IF i > Len(s) THEN i - 1
  ELSE IF \A k \in i..Len(s) : ~IsSpace(s[k]) THEN Len(s)
  ELSE (CHOOSE k \in i..Len(s) :
          /\ IsSpace(s[k])
          /\ \A m \in i..(k - 1) : ~IsSpace(s[m])) - 1

DigitRunEnd(s, i) ==
  IF i > Len(s) THEN i - 1
  ELSE IF \A k \in i..Len(s) : IsDigit(s[k]) THEN Len(s)
  ELSE (CHOOSE k \in i..Len(s) :
          /\ ~IsDigit(s[k])
          /\ \A m \in i..(k - 1) : IsDigit(s[m])) - 1

\* String.prototype.split(':').
RECURSIVE SplitColon(_)
SplitColon(s) ==
  IF \A k \in 1..Len(s) : s[k] # ":" THEN <<s>>
  ELSE LET k == CHOOSE k \in 1..Len(s) :
                  s[k] = ":" /\ \A m \in 1..(k - 1) : s[m] # ":"
       IN  <<SubSeq(s, 1, k - 1)>> \o SplitColon(SubSeq(s, k + 1, Len(s)))

-----------------------------------------------------------------------------
(* Numbers: parseFloat and the comparisons of the range check.  A number   *)
(* is NaN, an infinity, or the rational num / den with den a power of ten. *)

NaN == [kind |-> "NaN", num |-> 0, den |-> 1]
Infinity(sign) == [kind |-> "Infinity", num |-> sign, den |-> 1]
Finite(n, d) == [kind |-> "finite", num |-> n, den |-> d]

RECURSIVE Pow10(_)
Pow10(n) == IF n <= 0 THEN 1 ELSE 10 * Pow10(n - 1)

\* The value of a run of decimal digits s[i..j] (0 when the run is empty).
RECURSIVE DigitsValue(_, _, _)
DigitsValue(s, i, j) ==
  IF j < i THEN 0 ELSE 10 * DigitsValue(s, i, j - 1) + DigitValue[s[j]]

StartsWithAt(s, i, p) ==
  /\ i + Len(p) - 1 <= Len(s)
  /\ \A j \in 1..Len(p) : s[i + j - 1] = p[j]

\* parseFloat(s) for s without leading white space: the longest prefix that is
\* a StrDecimalLiteral ([+-] Infinity | digits [. digits] [e [+-] digits] |
\* . digits [e [+-] digits]); NaN when there is none.
ParseFloat(s) ==
  LET hasSign  == Len(s) >= 1 /\ s[1] \in {"+", "-"}
      sign     == IF hasSign /\ s[1] = "-" THEN -1 ELSE 1
      b        == IF hasSign THEN 2 ELSE 1          \* first character of the literal
      intEnd   == DigitRunEnd(s, b)                 \* b - 1 when there are no digits
      hasDot   == intEnd + 1 <= Len(s) /\ s[intEnd + 1] = "."
      fracEnd  == IF hasDot THEN DigitRunEnd(s, intEnd + 2) ELSE intEnd
      nInt     == intEnd - b + 1
      nFrac    == IF hasDot THEN fracEnd - (intEnd + 1) ELSE 0
      mantEnd  == IF hasDot /\ (nInt > 0 \/ nFrac > 0) THEN fracEnd ELSE intEnd
      hasE     == mantEnd + 1 <= Len(s) /\ s[mantEnd + 1] \in {"e", "E"}
      hasESign == hasE /\ mantEnd + 2 <= Len(s) /\ s[mantEnd + 2] \in {"+", "-"}
      eb       == IF hasESign THEN mantEnd + 3 ELSE mantEnd + 2
      expEnd   == IF hasE THEN DigitRunEnd(s, eb) ELSE eb - 1
      hasExp   == hasE /\ expEnd >= eb
      expo     == IF hasExp
                  THEN (IF hasESign /\ s[mantEnd + 2] = "-" THEN -1 ELSE 1)
                       * DigitsValue(s, eb, expEnd)
                  ELSE 0
      mant     == DigitsValue(s, b, intEnd) * Pow10(nFrac)
                  + DigitsValue(s, intEnd + 2, fracEnd)
  IN  IF StartsWithAt(s, b, <<"I", "n", "f", "i", "n", "i", "t", "y">>) THEN Infinity(sign)
      ELSE IF nInt = 0 /\ nFrac = 0 THEN NaN
      ELSE Finite(sign * mant * Pow10(expo), Pow10(nFrac) * Pow10(-expo))

IsNaN(x) == x.kind = "NaN"

\* x < y and x > y for a parsed number x and a finite literal y of the rule
\* tables; every comparison with NaN is false.
LessThan(x, y) ==
  CASE x.kind = "NaN" -> FALSE
    [] x.kind = "Infinity" -> x.num < 0
    [] OTHER -> x.num * y.den < y.num * x.den

GreaterThan(x, y) ==
  CASE x.kind = "NaN" -> FALSE
    [] x.kind = "Infinity" -> x.num > 0
    [] OTHER -> x.num * y.den > y.num * x.den

-----------------------------------------------------------------------------
(* Object property lookup                                                  *)

\* Property names every plain object inherits from Object.prototype: a lookup
\* table[name] with one of them yields the inherited member (a truthy function
\* object with none of the rule properties), not undefined.
ObjectPrototypeKeys == {"constructor", "toString"}

ObjectPrototypeMember(key) ==
  [name |-> IF key = "constructor" THEN "Object" ELSE key]

\* table[key] || table.custom
LookupOrCustom(table, key) ==
  IF key \in DOMAIN table THEN table[key]
  ELSE IF key \in ObjectPrototypeKeys THEN ObjectPrototypeMember(key)
  ELSE table["custom"]

\* obj.field as a condition, for a field that holds a number or an array.
Has(obj, field) == field \in DOMAIN obj

-----------------------------------------------------------------------------
(* PromptValidator                                                         *)

RuleText ==
  [ nsfw |-> <<"n", "s", "f", "w">>,
    nude |-> <<"n", "u", "d", "e">>,
    explicit |-> <<"e", "x", "p", "l", "i", "c", "i", "t">>,
    gore |-> <<"g", "o", "r", "e">>,
    disturbing |-> <<"d", "i", "s", "t", "u", "r", "b", "i", "n", "g">>,
    political |-> <<"p", "o", "l", "i", "t", "i", "c", "a", "l">>,
    celebrity |-> <<"c", "e", "l", "e", "b", "r", "i", "t", "y">>,
    clear_subject |-> <<"c", "l", "e", "a", "r", " ", "s", "u", "b", "j", "e", "c", "t">>,
    specific_style |-> <<"s", "p", "e", "c", "i", "f", "i", "c", " ", "s", "t", "y", "l", "e">>,
    ar |-> <<"a", "r">>,
    stylize |-> <<"s", "t", "y", "l", "i", "z", "e">>,
    quality |-> <<"q", "u", "a", "l", "i", "t", "y">>,
    steps |-> <<"s", "t", "e", "p", "s">>,
    cfg |-> <<"c", "f", "g">>,
    sampler |-> <<"s", "a", "m", "p", "l", "e", "r">>,
    guidance |-> <<"g", "u", "i", "d", "a", "n", "c", "e">>,
    Euler_a |-> <<"E", "u", "l", "e", "r", " ", "a">>,
    DPM_2M_Karras |-> <<"D", "P", "M", "+", "+", " ", "2", "M", " ", "K", "a", "r", "r", "a", "s">>,
    DDIM |-> <<"D", "D", "I", "M">> ]

\* this.validationRules.  A rule's `format` names its regular expression;
\* `range` holds the two bounds as numbers.
validationRules ==
  [ midjourney |->
      [ maxLength |-> 500,
        maxParameters |-> 10,
        forbiddenPhrases |-> <<RuleText.nsfw, RuleText.nude, RuleText.explicit, RuleText.gore, RuleText.disturbing>>,
        recommendedFormat |-> "subject, style, setting, quality parameters",
        parameterRules |->
          (RuleText.ar :> [format |-> "^\\d+:\\d+$"]
           @@ RuleText.stylize :> [format |-> "^\\d+$", range |-> <<Finite(0, 1), Finite(1000, 1)>>]
           @@ RuleText.quality :> [format |-> "^\\d+$", range |-> <<Finite(25, 100), Finite(5, 1)>>]) ],
    stable_diffusion |->
      [ maxLength |-> 1000,
        forbiddenPhrases |-> <<RuleText.nsfw, RuleText.nude, RuleText.explicit, RuleText.gore, RuleText.disturbing>>,
        recommendedFormat |-> "detailed description with weights using () or []",
        parameterRules |->
          (RuleText.steps :> [format |-> "^\\d+$", range |-> <<Finite(20, 1), Finite(150, 1)>>]
           @@ RuleText.cfg :> [format |-> "^\\d+(\\.\\d+)?$", range |-> <<Finite(1, 1), Finite(30, 1)>>]
           @@ RuleText.sampler :> [validValues |-> <<RuleText.Euler_a, RuleText.DPM_2M_Karras, RuleText.DDIM>>]) ],
    dall_e |->
      [ maxLength |-> 1000,
        forbiddenPhrases |-> <<RuleText.nsfw, RuleText.nude, RuleText.explicit, RuleText.gore, RuleText.disturbing,
                               RuleText.political, RuleText.celebrity>>,
        recommendedFormat |-> "detailed description, clear style references",
        requirements |-> <<RuleText.clear_subject, RuleText.specific_style>> ],
    runway |->
      [ maxLength |-> 800,
        forbiddenPhrases |-> <<RuleText.nsfw, RuleText.nude, RuleText.explicit, RuleText.gore, RuleText.disturbing>>,
        recommendedFormat |-> "descriptive text with visual details",
        parameterRules |->
          (RuleText.guidance :> [format |-> "^\\d+(\\.\\d+)?$", range |-> <<Finite(1, 1), Finite(50, 1)>>]) ],
    custom |->
      [ maxLength |-> 2000,
        forbiddenPhrases |-> <<>>,
        recommendedFormat |-> "any format acceptable" ] ]

\* RegExp.prototype.test for the three `format` expressions of the rule table.
RegExpTest(format, value) ==
  LET d1 == DigitRunEnd(value, 1)      \* end of the leading digits
      d2 == DigitRunEnd(value, d1 + 2) \* end of the digits after one separator
  IN  CASE format = "^\\d+$" -> d1 >= 1 /\ d1 = Len(value)
        [] format = "^\\d+:\\d+$" ->
             /\ d1 >= 1 /\ d1 + 1 <= Len(value) /\ value[d1 + 1] = ":"
             /\ d2 >= d1 + 2 /\ d2 = Len(value)
        [] format = "^\\d+(\\.\\d+)?$" ->
             /\ d1 >= 1
             /\ \/ d1 = Len(value)
                \/ /\ d1 + 1 <= Len(value) /\ value[d1 + 1] = "."
                   /\ d2 >= d1 + 2 /\ d2 = Len(value)

\* Whether /\b([a-z0-9_]+):(\S+)/i matches starting at index i.
ParamMatchAt(s, i) ==
  /\ IsWordChar(s[i])
  /\ (i = 1 \/ ~IsWordChar(s[i - 1]))
  /\ LET j == WordRunEnd(s, i)
     IN  /\ j + 2 <= Len(s)
         /\ s[j + 1] = ":"
         /\ ~IsSpace(s[j + 2])

\* content.match(/\b([a-z0-9_]+):(\S+)/gi) from index `from` on: the leftmost
\* match, which runs to the end of its run of non-space characters, then the
\* matches after it.  (null, for no match, is the empty sequence.)
RECURSIVE ParamMatches(_, _)
ParamMatches(s, from) ==
  LET starts == {i \in from..Len(s) : ParamMatchAt(s, i)}
  IN  IF starts = {} THEN <<>>
      ELSE LET i == CHOOSE i \in starts : \A k \in starts : i <= k
               e == NonSpaceRunEnd(s, WordRunEnd(s, i) + 2)
           IN  <<SubSeq(s, i, e)>> \o ParamMatches(s, e + 1)

\* const result = { status: 'valid', message: ..., warnings: [], errors: [] }
InitialResult(platform) ==
  [ status   |-> "valid",
    message  |-> <<"Prompt successfully validated for", platform>>,
    warnings |-> <<>>,
    errors   |-> <<>> ]

\* A warning that escalates: a status that is no longer 'valid' becomes 'error'.
WarnOrEscalate(status) == IF status = "valid" THEN "warning" ELSE "error"

\* if (result.status === 'valid') result.status = 'warning'
WarnIfValid(status) == IF status = "valid" THEN "warning" ELSE status

\* The length check with >= for >.
CheckLengthInclusive(result, prompt, rules) ==
  IF /\ Len(prompt.content) > 0
     /\ Has(rules, "maxLength")
     /\ Len(prompt.content) >= rules.maxLength
  THEN [result EXCEPT
          !.warnings = Append(@, <<"Prompt exceeds maximum length of", rules.maxLength>>),
          !.status = "warning"]
  ELSE result

\* Check length constraints
CheckLength(result, prompt, rules) ==
  IF /\ Len(prompt.content) > 0
     /\ Has(rules, "maxLength")
     /\ Len(prompt.content) > rules.maxLength
  THEN [result EXCEPT
          !.warnings = Append(@, <<"Prompt exceeds maximum length of", rules.maxLength>>),
          !.status = "warning"]
  ELSE result

\* The phrase test with the content left in its own letter case.
ContainsForbiddenCaseSensitive(content, phrase) ==
  Includes(content, ToLowerCase(phrase))

\* The phrase test of the forbidden-content loop:
\* lowerContent.includes(phrase.toLowerCase())
ContainsForbidden(content, phrase) ==
  Includes(ToLowerCase(content), ToLowerCase(phrase))

\* for (const phrase of rules.forbiddenPhrases) ..., from the i-th phrase on
RECURSIVE ForbiddenLoop(_, _, _, _)
ForbiddenLoop(result, content, phrases, i) ==
  IF i > Len(phrases) THEN result
  ELSE ForbiddenLoop(
         IF ContainsForbidden(content, phrases[i])
         THEN [result EXCEPT
                 !.errors = Append(@, <<"Prompt contains forbidden content", phrases[i]>>),
                 !.status = "error"]
         ELSE result,
         content, phrases, i + 1)

\* Check for forbidden content
CheckForbidden(result, prompt, rules) ==
  IF /\ Len(prompt.content) > 0
     /\ Has(rules, "forbiddenPhrases")
     /\ Len(rules.forbiddenPhrases) > 0
  THEN ForbiddenLoop(result, prompt.content, rules.forbiddenPhrases, 1)
  ELSE result

\* The status assignment without its guard: result.status = 'warning'
RequirementStatusUnguarded(status) == "warning"

\* The status assignment of the required-element loop:
\* if (result.status === 'valid') result.status = 'warning'
RequirementStatus(status) == WarnIfValid(status)

\* for (const requirement of rules.requirements) ..., from the i-th on
RECURSIVE RequirementsLoop(_, _, _, _)
RequirementsLoop(result, content, requirements, i) ==
  IF i > Len(requirements) THEN result
  ELSE RequirementsLoop(
         IF ~Includes(ToLowerCase(content), ToLowerCase(requirements[i]))
         THEN [result EXCEPT
                 !.warnings = Append(@, <<"Prompt may be missing required element",
                                          requirements[i]>>),
                 !.status = RequirementStatus(@)]
         ELSE result,
         content, requirements, i + 1)

\* The required-element check that stops after the first requirement.
CheckRequirementsFirstOnly(result, prompt, rules) ==
  IF Has(rules, "requirements") /\ Len(rules.requirements) > 0
  THEN RequirementsLoop(result, prompt.content, <<rules.requirements[1]>>, 1)
  ELSE result

\* Check required elements (if any)
CheckRequirements(result, prompt, rules) ==
  IF Has(rules, "requirements") /\ Len(rules.requirements) > 0
  THEN RequirementsLoop(result, prompt.content, rules.requirements, 1)
  ELSE result

\* The three checks of one matched parameter: format, range, valid values.
CheckFormat(result, paramName, paramRule, value) ==
  IF Has(paramRule, "format") /\ ~RegExpTest(paramRule.format, value)
  THEN [result EXCEPT
          !.warnings = Append(@, <<"Parameter has invalid format", paramName,
                                   paramRule.format>>),
          !.status = WarnIfValid(@)]
  ELSE result

\* The range check that appends its warning and leaves the status alone.
CheckRangeKeepsStatus(result, paramName, paramRule, value) ==
  IF /\ Has(paramRule, "range")
     /\ LET numValue == ParseFloat(value)
        IN  \/ IsNaN(numValue)
            \/ LessThan(numValue, paramRule.range[1])
            \/ GreaterThan(numValue, paramRule.range[2])
  THEN [result EXCEPT
          !.warnings = Append(@, <<"Parameter is out of range", paramName,
                                   paramRule.range>>)]
  ELSE result

CheckRange(result, paramName, paramRule, value) ==
  IF /\ Has(paramRule, "range")
     /\ LET numValue == ParseFloat(value)
        IN  \/ IsNaN(numValue)
            \/ LessThan(numValue, paramRule.range[1])
            \/ GreaterThan(numValue, paramRule.range[2])
  THEN [result EXCEPT
          !.warnings = Append(@, <<"Parameter is out of range", paramName,
                                   paramRule.range>>),
          !.status = WarnIfValid(@)]
  ELSE result

CheckValidValues(result, paramName, paramRule, value) ==
  IF /\ Has(paramRule, "validValues")
     /\ \A k \in 1..Len(paramRule.validValues) : paramRule.validValues[k] # value
  THEN [result EXCEPT
          !.warnings = Append(@, <<"Parameter has invalid value", paramName,
                                   paramRule.validValues>>),
          !.status = WarnIfValid(@)]
  ELSE result

\* const [param, value] = match.split(':')
ParamOf(match) == SplitColon(match)[1]
ValueOf(match) == SplitColon(match)[2]

\* for (const match of paramMatches) ..., from the i-th match on
RECURSIVE ParametersLoop(_, _, _, _)
ParametersLoop(result, parameterRules, paramMatches, i) ==
  IF i > Len(paramMatches) THEN result
  ELSE LET paramName == ToLowerCase(ParamOf(paramMatches[i]))
           value     == ValueOf(paramMatches[i])
       IN  ParametersLoop(
             IF paramName \in DOMAIN parameterRules
             THEN LET paramRule == parameterRules[paramName]
                  IN  CheckValidValues(
                        CheckRange(
                          CheckFormat(result, paramName, paramRule, value),
                          paramName, paramRule, value),
                        paramName, paramRule, value)
             ELSE result,
             parameterRules, paramMatches, i + 1)

\* Check parameter rules if present in prompt
CheckParameters(result, prompt, rules) ==
  IF Has(rules, "parameterRules") /\ Includes(prompt.content, <<":">>)
  THEN ParametersLoop(result, rules.parameterRules,
                      ParamMatches(prompt.content, 1), 1)
  ELSE result

\* The final message counting the warnings in the error branch too.
FinalMessageCountsWarnings(result, platform) ==
  CASE result.status = "warning" ->
         [result EXCEPT !.message =
            <<"Prompt validated with warnings for", Len(result.warnings), platform>>]
    [] result.status = "error" ->
         [result EXCEPT !.message =
            <<"Prompt validation failed with errors for", Len(result.warnings), platform>>]
    [] OTHER -> result

\* Update final message based on status
FinalMessage(result, platform) ==
  CASE result.status = "warning" ->
         [result EXCEPT !.message =
            <<"Prompt validated with warnings for", Len(result.warnings), platform>>]
    [] result.status = "error" ->
         [result EXCEPT !.message =
            <<"Prompt validation failed with errors for", Len(result.errors), platform>>]
    [] OTHER -> result

\* const rules = this.validationRules[platform] || this.validationRules.custom
RulesFor(platform) == LookupOrCustom(validationRules, platform)

\* PromptValidator.validate(prompt, platform)
validate(prompt, platform) ==
  LET rules == RulesFor(platform)
  IN  FinalMessage(
        CheckParameters(
          CheckRequirements(
            CheckForbidden(
              CheckLength(InitialResult(platform), prompt, rules),
              prompt, rules),
            prompt, rules),
          prompt, rules),
        platform)

-----------------------------------------------------------------------------
(* JavaScript values and texts shared by the components                     *)

\* A JavaScript value as the parser and the orchestrator receive it: a string,
\* a number, or undefined.
StringValue(s) == [type |-> "string", str |-> s]
NumberValue == [type |-> "number", str |-> <<>>]
UndefinedValue == [type |-> "undefined", str |-> <<>>]

\* !value is false: the value is a non-empty string or a (non-zero) number.
Truthy(value) ==
  \/ value.type = "number"
  \/ value.type = "string" /\ Len(value.str) > 0

\* Array.prototype.join(sep) on an array of strings.
RECURSIVE Join(_, _)
Join(array, sep) ==
  IF Len(array) = 0 THEN <<>>
  ELSE IF Len(array) = 1 THEN array[1]
  ELSE array[1] \o sep \o Join(Tail(array), sep)

\* new Date().toISOString(): a clock reading, which no decision of the
\* modelled code depends on.
ISOTimestamp == <<"2", "0", "2", "5", "-", "0", "1", "-", "0", "1", "T", "0", "0", ":", "0", "0", ":", "0", "0", ".", "0", "0", "0", "Z">>

-----------------------------------------------------------------------------
(* JSON: the values JSON.stringify and JSON.parse handle, and both          *)
(* conversions on the text, character by character.                         *)

\* Arrays and plain objects; an object is the sequence of its own properties
\* <<key, value>> in insertion order.
ArrayValue(items) == [type |-> "array", items |-> items]
ObjectValue(entries) == [type |-> "object", entries |-> entries]

\* The escape sequences of a JSON string: the character after the backslash
\* for each character that is written escaped.
EscapeOf ==
  [c \in {"\"", "\\", "\n", "\r", "\t"} |->
     CASE c = "\"" -> "\"" [] c = "\\" -> "\\" [] c = "\n" -> "n"
       [] c = "\r" -> "r" [] c = "\t" -> "t"]

\* QuoteJSONString(s): s between double quotes, with ", \ and the control
\* characters escaped.
Quote(s) ==
  LET slots == [j \in 1..(2 * Len(s)) |->
                  LET c == s[(j + 1) \div 2]
                  IN  IF j % 2 = 1
                      THEN (IF c \in DOMAIN EscapeOf THEN "\\" ELSE "none")
                      ELSE (IF c \in DOMAIN EscapeOf THEN EscapeOf[c] ELSE c)]
  IN  <<"\"">> \o SelectSeq(slots, LAMBDA x : x # "none") \o <<"\"">>

Spaces(n) == [k \in 1..n |-> " "]

\* The line break and indentation that JSON.stringify writes before a member
\* at nesting depth `level` (nothing when the gap is empty).
LineBreak(gap, level) ==
  IF gap = 0 THEN <<>> ELSE <<"\n">> \o Spaces(gap * level)

\* JSON.stringify(value, null, gap) for a string, array or object, at nesting
\* depth `level`: a property whose value is undefined is left out, an
\* undefined array element is written null.
RECURSIVE SerializeJSON(_, _, _)
SerializeJSON(value, gap, level) ==
  CASE value.type = "string" -> Quote(value.str)
    [] value.type = "undefined" -> <<"n", "u", "l", "l">>
    [] value.type = "array" ->
         IF Len(value.items) = 0 THEN <<"[", "]">>
         ELSE <<"[">> \o LineBreak(gap, level + 1)
                \o Join([k \in 1..Len(value.items) |->
                           SerializeJSON(value.items[k], gap, level + 1)],
                        <<",">> \o LineBreak(gap, level + 1))
                \o LineBreak(gap, level) \o <<"]">>
    [] value.type = "object" ->
         LET own == SelectSeq(value.entries, LAMBDA e : e[2].type # "undefined")
         IN  IF Len(own) = 0 THEN <<"{", "}">>
             ELSE <<"{">> \o LineBreak(gap, level + 1)
                    \o Join([k \in 1..Len(own) |->
                               Quote(own[k][1]) \o <<":">>
                                 \o (IF gap = 0 THEN <<>> ELSE <<" ">>)
                                 \o SerializeJSON(own[k][2], gap, level + 1)],
                            <<",">> \o LineBreak(gap, level + 1))
                    \o LineBreak(gap, level) \o <<"}">>

\* JSON.stringify(value, null, gap)
JSONStringify(value, gap) == SerializeJSON(value, gap, 0)

\* The characters an escape sequence of a JSON string stands for, by the
\* character after the backslash.
UnescapeOf ==
  [c \in {"\"", "\\", "/", "n", "r", "t"} |->
     CASE c = "\"" -> "\"" [] c = "\\" -> "\\" [] c = "/" -> "/"
       [] c = "n" -> "\n" [] c = "r" -> "\r" [] c = "t" -> "\t"]

\* The first index at or after i that holds no JSON white space (Len(t) + 1
\* when there is none).
SkipSpace(t, i) ==
  IF \A k \in i..Len(t) : IsSpace(t[k]) THEN Len(t) + 1
  ELSE CHOOSE k \in i..Len(t) : ~IsSpace(t[k]) /\ \A m \in i..(k - 1) : IsSpace(t[m])

\* The character at index k of t is preceded, from index lo on, by an odd
\* number of consecutive backslashes: it is the second character of an escape
\* sequence.
IsEscaped(t, lo, k) ==
  /\ k > lo
  /\ t[k - 1] = "\\"
  /\ LET first == CHOOSE m \in lo..(k - 1) :
                    /\ \A j \in m..(k - 1) : t[j] = "\\"
                    /\ (m = lo \/ t[m - 1] # "\\")
     IN  (k - first) % 2 = 1

\* The result of a parsing step that found no JSON text.
NoParse == [ok |-> FALSE, value |-> UndefinedValue, next |-> 0]

NullValue == [type |-> "null", str |-> <<>>]

\* A JSON string whose opening quote is at index i.
ParseJSONString(t, i) ==
  LET closing == {k \in (i + 1)..Len(t) : t[k] = "\"" /\ ~IsEscaped(t, i + 1, k)}
  IN  IF closing = {} THEN NoParse
      ELSE LET last == CHOOSE k \in closing : \A m \in closing : k <= m
               raw  == SubSeq(t, i + 1, last - 1)
               kept == SelectSeq([k \in 1..Len(raw) |-> k],
                                 LAMBDA k : ~(raw[k] = "\\" /\ ~IsEscaped(raw, 1, k)))
           IN  IF \E k \in 1..Len(raw) :
                    \/ raw[k] \in {"\n", "\r", "\t"}
                    \/ IsEscaped(raw, 1, k) /\ raw[k] \notin DOMAIN UnescapeOf
               THEN NoParse
               ELSE [ ok    |-> TRUE,
                      value |-> StringValue(
                                  [k \in 1..Len(kept) |->
                                     IF IsEscaped(raw, 1, kept[k])
                                     THEN UnescapeOf[raw[kept[k]]]
                                     ELSE raw[kept[k]]]),
                      next  |-> last + 1 ]

\* A JSON number that starts at index b: -? (0 | [1-9] digits) (. digits)?
\* ([eE] [+-]? digits)?.  The value keeps the text of the literal.
ParseJSONNumber(t, b) ==
  LET s       == IF t[b] = "-" THEN b + 1 ELSE b
      intEnd  == DigitRunEnd(t, s)
      hasFrac == intEnd + 1 <= Len(t) /\ t[intEnd + 1] = "."
      fracEnd == IF hasFrac THEN DigitRunEnd(t, intEnd + 2) ELSE intEnd
      hasExp  == fracEnd + 1 <= Len(t) /\ t[fracEnd + 1] \in {"e", "E"}
      expAt   == IF fracEnd + 2 <= Len(t) /\ t[fracEnd + 2] \in {"+", "-"}
                 THEN fracEnd + 3 ELSE fracEnd + 2
      expEnd  == IF hasExp THEN DigitRunEnd(t, expAt) ELSE fracEnd
  IN  IF \/ intEnd < s
         \/ t[s] = "0" /\ intEnd > s
         \/ hasFrac /\ fracEnd < intEnd + 2
         \/ hasExp /\ expEnd < expAt
      THEN NoParse
      ELSE [ ok    |-> TRUE,
             value |-> [type |-> "number", str |-> SubSeq(t, b, expEnd)],
             next  |-> expEnd + 1 ]

BooleanValue(literal) == [type |-> "boolean", str |-> literal]

\* obj[key] = value on the properties of an object: a property that exists
\* keeps its place and takes the value, a new one is added at the end.
SetProperty(entries, key, value) ==
  IF \E k \in 1..Len(entries) : entries[k][1] = key
  THEN [k \in 1..Len(entries) |->
          IF entries[k][1] = key THEN <<key, value>> ELSE entries[k]]
  ELSE Append(entries, <<key, value>>)

\* A JSON value that starts at or after index i, the elements of an array and
\* the members of an object; `acc` holds the elements or members read so far.
RECURSIVE ParseJSONValue(_, _)
RECURSIVE ParseJSONElements(_, _, _)
RECURSIVE ParseJSONMembers(_, _, _)
ParseJSONValue(t, i) ==
  LET b == SkipSpace(t, i)
  IN  IF b > Len(t) THEN NoParse
      ELSE CASE t[b] = "\"" -> ParseJSONString(t, b)
             [] t[b] = "[" ->
                  LET e == SkipSpace(t, b + 1)
                  IN  IF e <= Len(t) /\ t[e] = "]"
                      THEN [ok |-> TRUE, value |-> ArrayValue(<<>>), next |-> e + 1]
                      ELSE ParseJSONElements(t, b + 1, <<>>)
             [] t[b] = "{" ->
                  LET e == SkipSpace(t, b + 1)
                  IN  IF e <= Len(t) /\ t[e] = "}"
                      THEN [ok |-> TRUE, value |-> ObjectValue(<<>>), next |-> e + 1]
                      ELSE ParseJSONMembers(t, b + 1, <<>>)
             [] StartsWithAt(t, b, <<"n", "u", "l", "l">>) ->
                  [ok |-> TRUE, value |-> NullValue, next |-> b + 4]
             [] StartsWithAt(t, b, <<"t", "r", "u", "e">>) ->
                  [ok |-> TRUE, value |-> BooleanValue(<<"t", "r", "u", "e">>), next |-> b + 4]
             [] StartsWithAt(t, b, <<"f", "a", "l", "s", "e">>) ->
                  [ok |-> TRUE, value |-> BooleanValue(<<"f", "a", "l", "s", "e">>), next |-> b + 5]
             [] t[b] = "-" \/ IsDigit(t[b]) -> ParseJSONNumber(t, b)
             [] OTHER -> NoParse

ParseJSONElements(t, i, acc) ==
  LET v == ParseJSONValue(t, i)
      e == SkipSpace(t, v.next)
  IN  IF ~v.ok \/ e > Len(t) THEN NoParse
      ELSE IF t[e] = "," THEN ParseJSONElements(t, e + 1, Append(acc, v.value))
      ELSE IF t[e] = "]"
      THEN [ok |-> TRUE, value |-> ArrayValue(Append(acc, v.value)), next |-> e + 1]
      ELSE NoParse

ParseJSONMembers(t, i, acc) ==
  LET b   == SkipSpace(t, i)
      key == IF b <= Len(t) /\ t[b] = "\"" THEN ParseJSONString(t, b) ELSE NoParse
      c   == SkipSpace(t, key.next)
      v   == IF key.ok /\ c <= Len(t) /\ t[c] = ":"
             THEN ParseJSONValue(t, c + 1) ELSE NoParse
      e   == SkipSpace(t, v.next)
      all == SetProperty(acc, key.value.str, v.value)
  IN  IF ~v.ok \/ e > Len(t) THEN NoParse
      ELSE IF t[e] = "," THEN ParseJSONMembers(t, e + 1, all)
      ELSE IF t[e] = "}"
      THEN [ok |-> TRUE, value |-> ObjectValue(all), next |-> e + 1]
      ELSE NoParse

\* JSON.parse(text): the value, or the SyntaxError it throws.
JSONParse(text) ==
  LET v == ParseJSONValue(text, 1)
  IN  IF v.ok /\ SkipSpace(text, v.next) > Len(text)
      THEN [threw |-> FALSE, value |-> v.value]
      ELSE [threw |-> TRUE, message |-> "Unexpected token in JSON"]

\* obj[key] for an object value: the property's value, undefined without it.
Property(obj, key) ==
  IF \E k \in 1..Len(obj.entries) : obj.entries[k][1] = key
  THEN obj.entries[CHOOSE k \in 1..Len(obj.entries) : obj.entries[k][1] = key][2]
  ELSE UndefinedValue
-----------------------------------------------------------------------------
(* FormatTransformer                                                       *)

\* An object literal with no properties.
EmptyObject == <<>>

\* this.platformRules
platformRules ==
  [ midjourney |->
      [ maxLength |-> 500, parameterSeparator |-> <<",">>, weightOperator |-> "::",
        supportsTags |-> TRUE, supportsWeights |-> TRUE,
        imageRatio |-> "1:1, 16:9, 4:3, 3:2",
        commonParameters |-> <<"ar", "stylize", "quality", "chaos">> ],
    stable_diffusion |->
      [ maxLength |-> 1000, parameterSeparator |-> <<",">>, weightOperator |-> ":",
        supportsTags |-> TRUE, supportsWeights |-> TRUE,
        bracketTypes |-> <<"()", "[]", "{}">>, negativePromptMarker |-> "Negative:" ],
    dall_e |->
      [ maxLength |-> 1000, parameterSeparator |-> <<",">>,
        supportsTags |-> FALSE, supportsWeights |-> FALSE ],
    runway |->
      [ maxLength |-> 800, parameterSeparator |-> <<",">>,
        supportsTags |-> TRUE, supportsWeights |-> FALSE ],
    custom |->
      [ maxLength |-> 2000, parameterSeparator |-> <<",">>, weightOperator |-> "::",
        supportsTags |-> TRUE, supportsWeights |-> TRUE ] ]

\* this.formatRules
formatRules ==
  [ json |-> [indent |-> 2, includeMetadata |-> TRUE],
    txt  |-> [lineSeparator |-> <<"\n">>, includeMetadata |-> FALSE],
    csv  |-> [delimiter |-> <<",">>, includeHeader |-> TRUE, quoteStrings |-> TRUE],
    xml  |-> [rootElement |-> <<"p", "r", "o", "m", "p", "t">>, indent |-> 2] ]

\* rules.parameterSeparator converted to a string (in a template literal and
\* in `rules.parameterSeparator + ' '`).
SeparatorText(rules) ==
  IF Has(rules, "parameterSeparator") THEN rules.parameterSeparator ELSE <<"u", "n", "d", "e", "f", "i", "n", "e", "d">>

\* if (content.length > rules.maxLength) content = content.substring(0, rules.maxLength)
Truncate(content, rules) ==
  IF Has(rules, "maxLength") /\ Len(content) > rules.maxLength
  THEN Substring0(content, rules.maxLength)
  ELSE content

\* content = `${content}${rules.parameterSeparator} ${tags.join(rules.parameterSeparator + ' ')}`
AppendTags(content, tags, rules) ==
  content \o SeparatorText(rules) \o <<" ">>
          \o Join(tags, SeparatorText(rules) \o <<" ">>)

\* FormatTransformer._applyPlatformRules(prompt, rules)
applyPlatformRules(prompt, rules) ==
  LET metadata  == IF Has(prompt, "metadata") THEN prompt.metadata ELSE EmptyObject
      truncated == Truncate(prompt.content, rules)
      styled    == IF /\ Has(rules, "supportsTags") /\ rules.supportsTags
                      /\ Has(metadata, "styles") /\ Len(metadata.styles) > 0
                   THEN AppendTags(truncated, metadata.styles, rules)
                   ELSE truncated
      content   == IF Has(metadata, "qualities") /\ Len(metadata.qualities) > 0
                   THEN AppendTags(styled, metadata.qualities, rules)
                   ELSE styled
  IN  [content |-> content, metadata |-> metadata, platform |-> rules]

\* The property names of the metadata objects the program builds, in the order
\* their object literals list them (_parseText, _enhanceWithGemini), and the
\* text of each name.
PropertyOrder ==
  << "type", "subjects", "styles", "qualities", "settings", "parsedAt",
     "style", "subject", "setting", "quality", "generatedTimestamp" >>

PropertyText ==
  [ type |-> <<"t", "y", "p", "e">>, subjects |-> <<"s", "u", "b", "j", "e", "c", "t", "s">>, styles |-> <<"s", "t", "y", "l", "e", "s">>,
    qualities |-> <<"q", "u", "a", "l", "i", "t", "i", "e", "s">>, settings |-> <<"s", "e", "t", "t", "i", "n", "g", "s">>,
    parsedAt |-> <<"p", "a", "r", "s", "e", "d", "A", "t">>, style |-> <<"s", "t", "y", "l", "e">>, subject |-> <<"s", "u", "b", "j", "e", "c", "t">>,
    setting |-> <<"s", "e", "t", "t", "i", "n", "g">>, quality |-> <<"q", "u", "a", "l", "i", "t", "y">>,
    generatedTimestamp |-> <<"g", "e", "n", "e", "r", "a", "t", "e", "d", "T", "i", "m", "e", "s", "t", "a", "m", "p">> ]

\* The properties that hold arrays of strings; the others hold strings.
ArrayProperties == {"subjects", "styles", "qualities", "settings"}

\* Object.entries(metadata): <<key, value>> for each own property.
ObjectEntries(metadata) ==
  LET names == SelectSeq(PropertyOrder, LAMBDA n : n \in DOMAIN metadata)
  IN  [k \in 1..Len(names) |->
         << PropertyText[names[k]],
            IF names[k] \in ArrayProperties
            THEN ArrayValue([j \in 1..Len(metadata[names[k]]) |->
                               StringValue(metadata[names[k]][j])])
            ELSE StringValue(metadata[names[k]]) >>]

\* The text written for a metadata value: value.join(sep) for an array,
\* JSON.stringify(value) for another object, `${value}` for a string.
ValueText(value, sep) ==
  CASE value.type = "array" ->
         Join([k \in 1..Len(value.items) |-> value.items[k].str], sep)
    [] value.type = "object" -> JSONStringify(value, 0)
    [] OTHER -> value.str

\* The texts of a sequence one after the other.
Concat(texts) == Join(texts, <<>>)

\* config.includeMetadata && prompt.metadata (the metadata of a shaped prompt
\* is an object).
IncludesMetadata(config) == Has(config, "includeMetadata") /\ config.includeMetadata

\* _formatJson writing the text itself, the content between quotes as it is.
formatJsonByTemplate(prompt, config) ==
  <<"{">> \o <<"\"", "p", "r", "o", "m", "p", "t", "\"", ":", "\"">> \o prompt.content \o <<"\"", ",", "\"", "t", "i", "m", "e", "s", "t", "a", "m", "p", "\"", ":", "\"">>
    \o ISOTimestamp \o <<"\"">>
    \o (IF IncludesMetadata(config)
        THEN <<",", "\"", "m", "e", "t", "a", "d", "a", "t", "a", "\"", ":">>
               \o JSONStringify(ObjectValue(ObjectEntries(prompt.metadata)), 0)
        ELSE <<>>)
    \o <<"}">>

\* FormatTransformer._formatJson(prompt, config)
formatJson(prompt, config) ==
  JSONStringify(
    ObjectValue(<< <<<<"p", "r", "o", "m", "p", "t">>, StringValue(prompt.content)>>,
                   <<<<"t", "i", "m", "e", "s", "t", "a", "m", "p">>, StringValue(ISOTimestamp)>> >>
                \o (IF IncludesMetadata(config)
                    THEN << <<<<"m", "e", "t", "a", "d", "a", "t", "a">>, ObjectValue(ObjectEntries(prompt.metadata))>> >>
                    ELSE <<>>)),
    IF Has(config, "indent") THEN config.indent ELSE 0)

\* FormatTransformer._formatTxt(prompt, config)
formatTxt(prompt, config) ==
  LET entries == ObjectEntries(prompt.metadata)
  IN  prompt.content
        \o (IF IncludesMetadata(config)
            THEN config.lineSeparator \o config.lineSeparator
                   \o <<"M", "e", "t", "a", "d", "a", "t", "a", ":">> \o config.lineSeparator
                   \o Concat([k \in 1..Len(entries) |->
                                entries[k][1] \o <<":", " ">>
                                  \o ValueText(entries[k][2], <<",", " ">>)
                                  \o config.lineSeparator])
            ELSE <<>>)

\* FormatTransformer._formatCsv(prompt, config)
formatCsv(prompt, config) ==
  LET delimiter == IF Has(config, "delimiter") THEN config.delimiter ELSE <<",">>
      quote     == IF Has(config, "quoteStrings") /\ config.quoteStrings
                   THEN <<"\"">> ELSE <<>>
      entries   == ObjectEntries(prompt.metadata)
  IN  (IF Has(config, "includeHeader") /\ config.includeHeader
       THEN <<"p", "r", "o", "m", "p", "t">> \o delimiter \o <<"t", "i", "m", "e", "s", "t", "a", "m", "p">>
              \o Concat([k \in 1..Len(entries) |-> delimiter \o entries[k][1]])
              \o <<"\n">>
       ELSE <<>>)
        \o quote \o prompt.content \o quote \o delimiter
        \o quote \o ISOTimestamp \o quote
        \o Concat([k \in 1..Len(entries) |->
                     delimiter \o quote \o ValueText(entries[k][2], <<";", " ">>) \o quote])

\* The metadata element of the XML renderings, each line indented by n, 2n
\* and 3n spaces.
XmlMetadata(entries, n) ==
  Spaces(n) \o <<"<", "m", "e", "t", "a", "d", "a", "t", "a", ">">> \o <<"\n">>
    \o Concat([k \in 1..Len(entries) |->
         LET key == entries[k][1]
             value == entries[k][2]
         IN  IF value.type = "array"
             THEN Spaces(2 * n) \o <<"<">> \o key \o <<">">> \o <<"\n">>
                    \o Concat([j \in 1..Len(value.items) |->
                                 Spaces(3 * n) \o <<"<", "i", "t", "e", "m", ">">> \o value.items[j].str
                                   \o <<"<", "/", "i", "t", "e", "m", ">">> \o <<"\n">>])
                    \o Spaces(2 * n) \o <<"<", "/">> \o key \o <<">">> \o <<"\n">>
             ELSE IF value.type = "object"
             THEN Spaces(2 * n) \o <<"<">> \o key \o <<">", "<", "!", "[", "C", "D", "A", "T", "A", "[">>
                    \o JSONStringify(value, 0) \o <<"]", "]", ">", "<", "/">> \o key \o <<">">> \o <<"\n">>
             ELSE Spaces(2 * n) \o <<"<">> \o key \o <<">">> \o value.str
                    \o <<"<", "/">> \o key \o <<">">> \o <<"\n">>])
    \o Spaces(n) \o <<"<", "/", "m", "e", "t", "a", "d", "a", "t", "a", ">">> \o <<"\n">>

\* FormatTransformer._formatXml(prompt, config)
formatXml(prompt, config) ==
  LET rootElement == IF Has(config, "rootElement") THEN config.rootElement ELSE <<"p", "r", "o", "m", "p", "t">>
      n == IF Has(config, "indent") THEN config.indent ELSE 2
  IN  <<"<", "?", "x", "m", "l", " ", "v", "e", "r", "s", "i", "o", "n", "=", "\"", "1", ".", "0", "\"", " ", "e", "n", "c", "o", "d", "i", "n", "g", "=", "\"", "U", "T", "F", "-", "8", "\"", "?", ">">> \o <<"\n">>
        \o <<"<">> \o rootElement \o <<">">> \o <<"\n">>
        \o Spaces(n) \o <<"<", "c", "o", "n", "t", "e", "n", "t", ">", "<", "!", "[", "C", "D", "A", "T", "A", "[">> \o prompt.content
        \o <<"]", "]", ">", "<", "/", "c", "o", "n", "t", "e", "n", "t", ">">> \o <<"\n">>
        \o Spaces(n) \o <<"<", "t", "i", "m", "e", "s", "t", "a", "m", "p", ">">> \o ISOTimestamp \o <<"<", "/", "t", "i", "m", "e", "s", "t", "a", "m", "p", ">">> \o <<"\n">>
        \o XmlMetadata(ObjectEntries(prompt.metadata), n)
        \o <<"<", "/">> \o rootElement \o <<">">>

\* FormatTransformer._formatOutput(platformPrompt, format): the rendering of
\* the prompt.  An inherited member found for `format` has none of the
\* properties the renderings read, like {}.
formatOutput(platformPrompt, format) ==
  LET formatConfig == IF format \in DOMAIN formatRules THEN formatRules[format]
                      ELSE EmptyObject
  IN  CASE format = "txt" -> formatTxt(platformPrompt, formatConfig)
        [] format = "csv" -> formatCsv(platformPrompt, formatConfig)
        [] format = "xml" -> formatXml(platformPrompt, formatConfig)
        [] OTHER -> formatJson(platformPrompt, formatConfig)

\* FormatTransformer.transform(prompt, platform, format): the platform-shaped
\* prompt with its rendering and the requested format.
transform(prompt, platform, format) ==
  LET platformConfig == LookupOrCustom(platformRules, platform)
      platformPrompt == applyPlatformRules(prompt, platformConfig)
  IN  [ content   |-> platformPrompt.content,
        metadata  |-> platformPrompt.metadata,
        platform  |-> platformPrompt.platform,
        formatted |-> formatOutput(platformPrompt, format),
        format    |-> format ]

-----------------------------------------------------------------------------
(* Inputs of the component-level specifications                            *)

\* Contents are made of at most MaxWords words of a vocabulary, joined by one
\* space, and of texts filled up to the length limits of the rule tables and
\* up to Overrun characters beyond them.
MaxWords == 2
Overrun == 1

Word ==
  [ NSFW |-> <<"N", "S", "F", "W">>,
    Gore |-> <<"G", "o", "r", "e">>,
    Specific_Style |-> <<"S", "p", "e", "c", "i", "f", "i", "c", " ", "S", "t", "y", "l", "e">>,
    ar_16_9 |-> <<"a", "r", ":", "1", "6", ":", "9">>,
    stylize_2000 |-> <<"s", "t", "y", "l", "i", "z", "e", ":", "2", "0", "0", "0">>,
    quality_2 |-> <<"q", "u", "a", "l", "i", "t", "y", ":", "2">>,
    steps_50 |-> <<"s", "t", "e", "p", "s", ":", "5", "0">>,
    cfg_7_5 |-> <<"c", "f", "g", ":", "7", ".", "5">>,
    sampler_DDIM |-> <<"s", "a", "m", "p", "l", "e", "r", ":", "D", "D", "I", "M">>,
    guidance_abc |-> <<"g", "u", "i", "d", "a", "n", "c", "e", ":", "a", "b", "c">>,
    cat |-> <<"c", "a", "t">>,
    cinematic |-> <<"c", "i", "n", "e", "m", "a", "t", "i", "c">>,
    high_quality |-> <<"h", "i", "g", "h", " ", "q", "u", "a", "l", "i", "t", "y">>,
    film_noir |-> <<"f", "i", "l", "m", " ", "n", "o", "i", "r">>,
    quoted |-> <<"a", " ", "\"", "b", "\"", " ", "\\", "c">> ]

ValidatorWords ==
  { RuleText.nsfw, Word.NSFW, Word.Gore, RuleText.celebrity, RuleText.clear_subject, Word.Specific_Style,
    Word.ar_16_9, Word.stylize_2000, Word.quality_2, Word.steps_50, Word.cfg_7_5,
    Word.sampler_DDIM, Word.guidance_abc, Word.cat }

RECURSIVE Texts(_, _)
Texts(words, n) ==
  IF n = 0 THEN {<<>>}
  ELSE LET shorter == Texts(words, n - 1)
       IN  shorter \cup words
             \cup {t \o <<" ">> \o w : t \in shorter \ {<<>>}, w \in words}

\* `prefix` followed by as many "x" as make the text n characters long.
Filled(prefix, n) ==
  [i \in 1..n |-> IF i <= Len(prefix) THEN prefix[i] ELSE "x"]

LengthLimits == {validationRules[p].maxLength : p \in DOMAIN validationRules}

BoundaryLengths == {m + d : m \in LengthLimits, d \in 0..Overrun}

ValidatorContents ==
  Texts(ValidatorWords, MaxWords)
    \cup {Filled(prefix, n) :
            prefix \in {<<>>, Word.NSFW \o <<" ">>, Word.quality_2 \o <<" ">>},
            n \in BoundaryLengths}

\* Platform identifiers: the keys of the rule tables, an identifier no table
\* has, and one that names a member of Object.prototype.
UnitPlatforms ==
  DOMAIN validationRules \cup {"unknown_platform", "constructor"}

UnitFormats == DOMAIN formatRules \cup {"yaml"}

TransformerContents ==
  {<<>>, Word.cat, Word.quoted \o <<"\n">> \o Word.cat}
    \cup {Filled(<<>>, n) : n \in {m - 1 : m \in LengthLimits} \cup BoundaryLengths}

TransformerMetadata ==
  { EmptyObject,
    [styles |-> <<Word.cinematic>>],
    [qualities |-> <<Word.high_quality>>],
    [styles |-> <<Word.cinematic>>, qualities |-> <<Word.high_quality>>],
    [styles |-> <<Word.cinematic, Word.film_noir>>, qualities |-> <<>>],
    [styles |-> <<Word.quoted>>, type |-> Word.cat] }

TransformerPrompts ==
  {[content |-> c] : c \in TransformerContents}
    \cup {[content |-> c, metadata |-> m] :
            c \in TransformerContents, m \in TransformerMetadata}

-----------------------------------------------------------------------------
(* Each specification leaves the variables of the others at a fixed value. *)

PipelineUnused ==
  /\ classes = "unused" /\ pc = "unused" /\ options = Undefined
  /\ parsedPrompt = Undefined /\ enhancedPrompt = Undefined
  /\ validationResult = Undefined /\ formattedPrompt = Undefined
  /\ exportResult = Undefined /\ outcome = Undefined /\ trace = <<>>
  /\ response = <<>>

ValidatorUnused ==
  /\ vPc = "unused" /\ vPrompt = Undefined /\ vPlatform = Undefined
  /\ vResult = Undefined

TransformerUnused ==
  /\ tPc = "unused" /\ tPrompt = Undefined /\ tPlatform = Undefined
  /\ tFormat = Undefined /\ tResult = Undefined

EngineUnused ==
  /\ ePc = "unused" /\ ePrompt = Undefined /\ eFormat = Undefined
  /\ eIncludeMetadata = Undefined /\ eParams = Undefined /\ eResult = Undefined

NormalizeUnused ==
  /\ nPc = "unused" /\ nMaxLength = Undefined /\ nContent = Undefined
  /\ nResult = Undefined

ParseUnused ==
  /\ pPc = "unused" /\ pContent = Undefined /\ pSourceType = Undefined
  /\ pResult = Undefined

-----------------------------------------------------------------------------
(* ValidatorSpec: one call of PromptValidator.validate, check by check     *)

ValidatorInit ==
  /\ vPrompt \in {[content |-> c] : c \in ValidatorContents}
  /\ vPlatform \in UnitPlatforms
  /\ vPc = "length"
  /\ vResult = InitialResult(vPlatform)
  /\ TransformerUnused
  /\ EngineUnused
  /\ NormalizeUnused
  /\ ParseUnused
  /\ PipelineUnused

LengthCheck ==
  /\ vPc = "length"
  /\ vResult' = CheckLength(vResult, vPrompt, RulesFor(vPlatform))
  /\ vPc' = "forbidden"
  /\ UNCHANGED <<vPrompt, vPlatform, transformerVars, engineVars, normalizeVars, parseVars,
                 pipelineVars>>

ForbiddenCheck ==
  /\ vPc = "forbidden"
  /\ vResult' = CheckForbidden(vResult, vPrompt, RulesFor(vPlatform))
  /\ vPc' = "requirements"
  /\ UNCHANGED <<vPrompt, vPlatform, transformerVars, engineVars, normalizeVars, parseVars,
                 pipelineVars>>

RequirementsCheck ==
  /\ vPc = "requirements"
  /\ vResult' = CheckRequirements(vResult, vPrompt, RulesFor(vPlatform))
  /\ vPc' = "parameters"
  /\ UNCHANGED <<vPrompt, vPlatform, transformerVars, engineVars, normalizeVars, parseVars,
                 pipelineVars>>

ParametersCheck ==
  /\ vPc = "parameters"
  /\ vResult' = CheckParameters(vResult, vPrompt, RulesFor(vPlatform))
  /\ vPc' = "message"
  /\ UNCHANGED <<vPrompt, vPlatform, transformerVars, engineVars, normalizeVars, parseVars,
                 pipelineVars>>

ValidateReturn ==
  /\ vPc = "message"
  /\ vResult' = FinalMessage(vResult, vPlatform)
  /\ vPc' = "returned"
  /\ UNCHANGED <<vPrompt, vPlatform, transformerVars, engineVars, normalizeVars, parseVars,
                 pipelineVars>>

ValidatorNext ==
  \/ LengthCheck
  \/ ForbiddenCheck
  \/ RequirementsCheck
  \/ ParametersCheck
  \/ ValidateReturn

ValidatorSpec == ValidatorInit /\ [][ValidatorNext]_vars

-----------------------------------------------------------------------------
(* TransformerSpec: one call of FormatTransformer.transform                *)

TransformerInit ==
  /\ tPrompt \in TransformerPrompts
  /\ tPlatform \in UnitPlatforms
  /\ tFormat \in UnitFormats
  /\ tPc = "ready"
  /\ tResult = Undefined
  /\ ValidatorUnused
  /\ EngineUnused
  /\ NormalizeUnused
  /\ ParseUnused
  /\ PipelineUnused

Transform ==
  /\ tPc = "ready"
  /\ tResult' = transform(tPrompt, tPlatform, tFormat)
  /\ tPc' = "returned"
  /\ UNCHANGED <<tPrompt, tPlatform, tFormat, validatorVars, engineVars, normalizeVars, parseVars,
                 pipelineVars>>

TransformerNext == Transform

TransformerSpec == TransformerInit /\ [][TransformerNext]_vars

-----------------------------------------------------------------------------
(* PromptParser                                                            *)

\* this.config.maxPromptLength of a parser constructed without a config
maxPromptLength == 1000

\* String.prototype.trim()
Trim(s) ==
  IF \A k \in 1..Len(s) : IsSpace(s[k]) THEN <<>>
  ELSE LET first == CHOOSE k \in 1..Len(s) :
                      ~IsSpace(s[k]) /\ \A m \in 1..(k - 1) : IsSpace(s[m])
           last  == CHOOSE k \in 1..Len(s) :
                      ~IsSpace(s[k]) /\ \A m \in (k + 1)..Len(s) : IsSpace(s[m])
       IN  SubSeq(s, first, last)

IsLineBreak(c) == c \in {"\n", "\r"}

\* s.replace(/[\n\r]+/g, ' '): a character of a run of line breaks is kept (as
\* one space) only where the run starts.
ReplaceLineBreakRuns(s) ==
  LET kept == SelectSeq([i \in 1..Len(s) |-> i],
                        LAMBDA i : ~(IsLineBreak(s[i]) /\ i > 1 /\ IsLineBreak(s[i - 1])))
  IN  [k \in 1..Len(kept) |-> IF IsLineBreak(s[kept[k]]) THEN " " ELSE s[kept[k]]]

\* s.replace(/\s+/g, ' ')
ReplaceSpaceRuns(s) ==
  LET kept == SelectSeq([i \in 1..Len(s) |-> i],
                        LAMBDA i : ~(IsSpace(s[i]) /\ i > 1 /\ IsSpace(s[i - 1])))
  IN  [k \in 1..Len(kept) |-> IF IsSpace(s[kept[k]]) THEN " " ELSE s[kept[k]]]

\* PromptParser._normalizeContent(content) of a parser whose
\* config.maxPromptLength is `limit`: [threw |-> TRUE] for the Error of an
\* empty content and for the TypeError of content.trim on a number.
normalizeContent(content, limit) ==
  IF ~Truthy(content)
  THEN [threw |-> TRUE, message |-> "Content cannot be empty"]
  ELSE IF content.type # "string"
  THEN [threw |-> TRUE, message |-> "content.trim is not a function"]
  ELSE [threw |-> FALSE,
        value |-> ReplaceSpaceRuns(ReplaceLineBreakRuns(
                    Substring0(Trim(content.str), limit)))]

Keyword ==
  [ film_noir_kw |-> <<"f", "i", "l", "m", " ", "n", "o", "i", "r">>,
    dramatic |-> <<"d", "r", "a", "m", "a", "t", "i", "c">>,
    realistic |-> <<"r", "e", "a", "l", "i", "s", "t", "i", "c">>,
    stylized |-> <<"s", "t", "y", "l", "i", "z", "e", "d">>,
    anime |-> <<"a", "n", "i", "m", "e">>,
    detailed |-> <<"d", "e", "t", "a", "i", "l", "e", "d">>,
    uhd_8k |-> <<"8", "k">>,
    uhd_4k |-> <<"4", "k">>,
    hd |-> <<"h", "d">>,
    person |-> <<"p", "e", "r", "s", "o", "n">>,
    man |-> <<"m", "a", "n">>,
    woman |-> <<"w", "o", "m", "a", "n">>,
    character |-> <<"c", "h", "a", "r", "a", "c", "t", "e", "r">>,
    detective |-> <<"d", "e", "t", "e", "c", "t", "i", "v", "e">>,
    figure |-> <<"f", "i", "g", "u", "r", "e">>,
    urban |-> <<"u", "r", "b", "a", "n">>,
    city |-> <<"c", "i", "t", "y">>,
    office |-> <<"o", "f", "f", "i", "c", "e">>,
    indoor |-> <<"i", "n", "d", "o", "o", "r">>,
    outdoor |-> <<"o", "u", "t", "d", "o", "o", "r">>,
    landscape |-> <<"l", "a", "n", "d", "s", "c", "a", "p", "e">>,
    location |-> <<"l", "o", "c", "a", "t", "i", "o", "n">>,
    text |-> <<"t", "e", "x", "t">>,
    document |-> <<"d", "o", "c", "u", "m", "e", "n", "t">> ]

\* content.match(/a|b|.../i) for literal alternatives.
MatchesAny(content, alternatives) ==
  \E a \in alternatives : Includes(ToLowerCase(content), a)

\* PromptParser._extractComponents(content)
extractComponents(content) ==
  [ subjects  |-> IF MatchesAny(content, {Keyword.person, Keyword.man, Keyword.woman, Keyword.character,
                                          Keyword.detective, Keyword.figure})
                  THEN <<Keyword.character>> ELSE <<>>,
    styles    |-> IF MatchesAny(content, {Word.cinematic, Keyword.film_noir_kw, Keyword.dramatic,
                                          Keyword.realistic, Keyword.stylized, Keyword.anime})
                  THEN <<Word.cinematic>> ELSE <<>>,
    qualities |-> IF MatchesAny(content, {Keyword.detailed, Word.high_quality, Keyword.uhd_8k, Keyword.uhd_4k, Keyword.hd})
                  THEN <<Word.high_quality>> ELSE <<>>,
    settings  |-> IF MatchesAny(content, {Keyword.urban, Keyword.city, Keyword.office, Keyword.indoor,
                                          Keyword.outdoor, Keyword.landscape})
                  THEN <<Keyword.location>> ELSE <<>> ]

\* PromptParser._parseText / _parseDocument
parseTyped(type, components) ==
  [ type      |-> type,
    subjects  |-> components.subjects,
    styles    |-> components.styles,
    qualities |-> components.qualities,
    settings  |-> components.settings,
    parsedAt  |-> ISOTimestamp ]

\* String(n) for an array index n.
RECURSIVE IndexText(_)
IndexText(n) ==
  LET digit == <<"0", "1", "2", "3", "4", "5", "6", "7", "8", "9">>[(n % 10) + 1]
  IN  IF n < 10 THEN <<digit>> ELSE Append(IndexText(n \div 10), digit)

\* The own enumerable properties that `...value` copies: the properties of an
\* object, the elements of an array and the characters of a string under their
\* indices, nothing for a number, a boolean or null.
SpreadEntries(value) ==
  CASE value.type = "object" -> value.entries
    [] value.type = "array" ->
         [k \in 1..Len(value.items) |-> <<IndexText(k - 1), value.items[k]>>]
    [] value.type = "string" ->
         [k \in 1..Len(value.str) |-> <<IndexText(k - 1), StringValue(<<value.str[k]>>)>>]
    [] OTHER -> <<>>

\* The properties of an object literal: `more` written after `entries`.
RECURSIVE AssignEntries(_, _)
AssignEntries(entries, more) ==
  IF more = <<>> THEN entries
  ELSE AssignEntries(SetProperty(entries, more[1][1], more[1][2]), Tail(more))

\* _parseStructured whose fallback labels the metadata 'structured'.
parseStructuredLabelled(content, components) ==
  LET structuredData == JSONParse(content)
  IN  IF structuredData.threw THEN parseTyped(<<"s", "t", "r", "u", "c", "t", "u", "r", "e", "d">>, components)
      ELSE ObjectValue(
             AssignEntries(
               << <<<<"t", "y", "p", "e">>, StringValue(<<"s", "t", "r", "u", "c", "t", "u", "r", "e", "d">>)>>,
                  <<<<"s", "t", "r", "u", "c", "t", "u", "r", "e", "d">>, BooleanValue(<<"t", "r", "u", "e">>)>> >>,
               SpreadEntries(structuredData.value)
                 \o << <<<<"p", "a", "r", "s", "e", "d", "A", "t">>, StringValue(ISOTimestamp)>> >>))

\* The try block and the catch clause of _parseStructured, for the outcome
\* structuredData of JSON.parse(content): the object
\* { type: 'structured', structured: true, ...structuredData, parsedAt }, and
\* the metadata of the text path when JSON.parse threw.
structuredMetadata(structuredData, components) ==
  IF structuredData.threw THEN parseTyped(Keyword.text, components)
  ELSE ObjectValue(
         AssignEntries(
           << <<<<"t", "y", "p", "e">>, StringValue(<<"s", "t", "r", "u", "c", "t", "u", "r", "e", "d">>)>>,
              <<<<"s", "t", "r", "u", "c", "t", "u", "r", "e", "d">>, BooleanValue(<<"t", "r", "u", "e">>)>> >>,
           SpreadEntries(structuredData.value)
             \o << <<<<"p", "a", "r", "s", "e", "d", "A", "t">>, StringValue(ISOTimestamp)>> >>))

\* PromptParser._parseStructured(content, components)
parseStructured(content, components) ==
  structuredMetadata(JSONParse(content), components)

\* PromptParser.parse(content, sourceType); an unknown source type takes the
\* switch's default, the text path.
parse(content, sourceType) ==
  LET normalized == normalizeContent(content, maxPromptLength)
  IN  IF normalized.threw THEN normalized
      ELSE LET components == extractComponents(normalized.value)
           IN  [ threw |-> FALSE,
                 value |->
                   [ content    |-> StringValue(normalized.value),
                     metadata   |->
                       CASE sourceType = "document" ->
                              parseTyped(Keyword.document, components)
                         [] sourceType = "structured" ->
                              parseStructured(normalized.value, components)
                         [] OTHER -> parseTyped(Keyword.text, components),
                     components |-> components ] ]

\* The placeholder PromptParser of the orchestrator's file.
placeholderParse(content, type) ==
  [threw |-> FALSE, value |-> [content |-> content, metadata |-> EmptyObject]]

-----------------------------------------------------------------------------------------------------------------------------------------------------
(* NormalizeSpec: one call of PromptParser._normalizeContent               *)

MaxTextLength == 4

\* The characters of the contents: letters, a space, a line break.
TextCharacters == {"a", "b", " ", "\n"}

RECURSIVE TextsOfLength(_)
TextsOfLength(n) ==
  IF n = 0 THEN {<<>>}
  ELSE {Append(t, c) : t \in TextsOfLength(n - 1), c \in TextCharacters}

\* The non-empty contents of at most MaxTextLength characters.
NormalizeContents == UNION {TextsOfLength(n) : n \in 1..MaxTextLength}

\* The values of config.maxPromptLength: small ones, which cut the contents, and
\* the default.
NormalizeLimits == (1..MaxTextLength) \cup {maxPromptLength}

NormalizeInit ==
  /\ nMaxLength \in NormalizeLimits
  /\ nContent \in {StringValue(t) : t \in NormalizeContents}
  /\ nPc = "ready"
  /\ nResult = Undefined
  /\ ValidatorUnused
  /\ TransformerUnused
  /\ EngineUnused
  /\ ParseUnused
  /\ PipelineUnused

Normalize ==
  /\ nPc = "ready"
  /\ nResult' = normalizeContent(nContent, nMaxLength)
  /\ nPc' = "returned"
  /\ UNCHANGED <<nMaxLength, nContent, validatorVars, transformerVars, engineVars,
                 parseVars, pipelineVars>>

NormalizeNext == Normalize

NormalizeSpec == NormalizeInit /\ [][NormalizeNext]_vars

-----------------------------------------------------------------------------
(* ParseSpec: one call of PromptParser.parse                               *)

\* The text between braces.
Braced(text) == <<"{">> \o text \o <<"}">>

\* Contents that JSON.parse rejects: plain text and broken documents.
PlainContents ==
  { Word.cat, Word.cinematic \o <<" ">> \o Keyword.city, Keyword.detailed \o <<" ">> \o Keyword.detective,
    <<"8", "k">>, <<"t", "r", "u">>, <<"0", "1">>, <<"[", "\"", "a", "\"", ",">>, <<"\"", "c", "a", "t">>,
    <<"{">> \o <<"\"", "t", "y", "p", "e", "\"", ":">>, Braced(<<"'", "t", "y", "p", "e", "'", ":", " ", "'", "x", "'">>), Braced(<<"t", "y", "p", "e", ":", " ", "\"", "x", "\"">>) }

\* Contents that JSON.parse accepts: objects, and documents of other kinds.
DocumentContents ==
  { Braced(<<>>), Braced(<<"\"", "t", "y", "p", "e", "\"", ":", " ", "\"", "c", "u", "s", "t", "o", "m", "\"">>), Braced(<<"\"", "s", "t", "y", "l", "e", "s", "\"", ":", " ", "[", "\"", "n", "e", "o", "n", "\"", "]">>),
    Braced(<<"\"", "p", "a", "r", "s", "e", "d", "A", "t", "\"", ":", " ", "\"", "x", "\"">>), Braced(<<"\"", "s", "t", "r", "u", "c", "t", "u", "r", "e", "d", "\"", ":", " ", "f", "a", "l", "s", "e", ",", " ", "\"", "n", "o", "t", "e", "\"", ":", " ", "\"", "a", " ", " ", "b", "\"">>),
    Braced(<<"\"", "a", "\"", ":", " ", "\"", "b", "\"", ",", " ", "\"", "a", "\"", ":", " ", "\"", "c", "\"">>),
    Braced(<<"\"", "s", "u", "b", "j", "e", "c", "t", "s", "\"", ":", " ", "[", "\"", "c", "a", "t", "\"", "]", ",", " ", "\"", "w", "e", "i", "g", "h", "t", "\"", ":", " ", "1", ".", "5", ",", " ", "\"", "d", "r", "a", "f", "t", "\"", ":", " ", "t", "r", "u", "e", ",", " ", "\"", "o", "w", "n", "e", "r", "\"", ":", " ", "n", "u", "l", "l">>),
    <<" ">> \o Braced(<<"\n">> \o <<"\"", "t", "y", "p", "e", "\"", ":", " ", "\"", "c", "i", "n", "e", "m", "a", "t", "i", "c", "\"">> \o <<"\n">>),
    <<"[", "\"", "a", "\"", ",", " ", "\"", "b", "\"", "]">>, <<"\"", "d", "e", "t", "a", "i", "l", "e", "d", "\"">>, <<"4", "2">>, <<"n", "u", "l", "l">>, <<"t", "r", "u", "e">> }

ParseContents ==
  {StringValue(t) : t \in PlainContents \cup DocumentContents}
    \cup {StringValue(<<>>), NumberValue}

ParseSourceTypes == {"text", "document", "structured", "markdown"}

ParseInit ==
  /\ pContent \in ParseContents
  /\ pSourceType \in ParseSourceTypes
  /\ pPc = "ready"
  /\ pResult = Undefined
  /\ ValidatorUnused
  /\ TransformerUnused
  /\ EngineUnused
  /\ NormalizeUnused
  /\ PipelineUnused

ParseCall ==
  /\ pPc = "ready"
  /\ pResult' = parse(pContent, pSourceType)
  /\ pPc' = IF pResult'.threw THEN "thrown" ELSE "returned"
  /\ UNCHANGED <<pContent, pSourceType, validatorVars, transformerVars, engineVars,
                 normalizeVars, pipelineVars>>

ParseNext == ParseCall

ParseSpec == ParseInit /\ [][ParseNext]_vars

-----
(* ExportEngine                                                            *)

\* prompt.metadata is truthy: the prompt has the property (an object).
HasMetadata(prompt) == Has(prompt, "metadata")

\* ExportEngine._formatJsonFile(prompt, includeMetadata)
formatJsonFile(prompt, includeMetadata) ==
  JSONStringify(
    ObjectValue(<< <<<<"p", "r", "o", "m", "p", "t">>, StringValue(prompt.content)>>,
                   <<<<"t", "i", "m", "e", "s", "t", "a", "m", "p">>, StringValue(ISOTimestamp)>> >>
                \o (IF includeMetadata /\ HasMetadata(prompt)
                    THEN << <<<<"m", "e", "t", "a", "d", "a", "t", "a">>, ObjectValue(ObjectEntries(prompt.metadata))>> >>
                    ELSE <<>>)),
    2)

\* _formatTxtFile writing the metadata block whatever includeMetadata says.
formatTxtFileWithMetadata(prompt, includeMetadata) ==
  prompt.content
    \o (IF HasMetadata(prompt)
        THEN LET entries == ObjectEntries(prompt.metadata)
             IN  <<"\n", "\n">> \o <<"-", "-", "-", " ", "M", "e", "t", "a", "d", "a", "t", "a", " ", "-", "-", "-">> \o <<"\n">>
                   \o Concat([k \in 1..Len(entries) |->
                                entries[k][1] \o <<":", " ">>
                                  \o ValueText(entries[k][2], <<",", " ">>) \o <<"\n">>])
        ELSE <<>>)

\* ExportEngine._formatTxtFile(prompt, includeMetadata)
formatTxtFile(prompt, includeMetadata) ==
  prompt.content
    \o (IF includeMetadata /\ HasMetadata(prompt)
        THEN LET entries == ObjectEntries(prompt.metadata)
             IN  <<"\n", "\n">> \o <<"-", "-", "-", " ", "M", "e", "t", "a", "d", "a", "t", "a", " ", "-", "-", "-">> \o <<"\n">>
                   \o Concat([k \in 1..Len(entries) |->
                                entries[k][1] \o <<":", " ">>
                                  \o ValueText(entries[k][2], <<",", " ">>) \o <<"\n">>])
        ELSE <<>>)

\* ExportEngine._formatCsvFile(prompt, includeMetadata)
formatCsvFile(prompt, includeMetadata) ==
  LET metadataKeys == IF includeMetadata /\ HasMetadata(prompt)
                      THEN ObjectEntries(prompt.metadata) ELSE <<>>
  IN  <<"p", "r", "o", "m", "p", "t", ",", "t", "i", "m", "e", "s", "t", "a", "m", "p">>
        \o Concat([k \in 1..Len(metadataKeys) |-> <<",">> \o metadataKeys[k][1]])
        \o <<"\n">>
        \o <<"\"">> \o prompt.content \o <<"\"", ",", "\"">> \o ISOTimestamp \o <<"\"">>
        \o Concat([k \in 1..Len(metadataKeys) |->
                     <<",", "\"">> \o ValueText(metadataKeys[k][2], <<";", " ">>) \o <<"\"">>])

\* ExportEngine._formatXmlFile(prompt, includeMetadata)
formatXmlFile(prompt, includeMetadata) ==
  <<"<", "?", "x", "m", "l", " ", "v", "e", "r", "s", "i", "o", "n", "=", "\"", "1", ".", "0", "\"", " ", "e", "n", "c", "o", "d", "i", "n", "g", "=", "\"", "U", "T", "F", "-", "8", "\"", "?", ">">> \o <<"\n">>
    \o <<"<", "p", "r", "o", "m", "p", "t", ">">> \o <<"\n">>
    \o <<" ", " ", "<", "c", "o", "n", "t", "e", "n", "t", ">", "<", "!", "[", "C", "D", "A", "T", "A", "[">> \o prompt.content \o <<"]", "]", ">", "<", "/", "c", "o", "n", "t", "e", "n", "t", ">">> \o <<"\n">>
    \o <<" ", " ", "<", "t", "i", "m", "e", "s", "t", "a", "m", "p", ">">> \o ISOTimestamp \o <<"<", "/", "t", "i", "m", "e", "s", "t", "a", "m", "p", ">">> \o <<"\n">>
    \o (IF includeMetadata /\ HasMetadata(prompt)
        THEN XmlMetadata(ObjectEntries(prompt.metadata), 2)
        ELSE <<>>)
    \o <<"<", "/", "p", "r", "o", "m", "p", "t", ">">>

formatSettings ==
  [ json |-> [mimeType |-> "application/json", extension |-> <<".", "j", "s", "o", "n">>],
    txt  |-> [mimeType |-> "text/plain", extension |-> <<".", "t", "x", "t">>],
    csv  |-> [mimeType |-> "text/csv", extension |-> <<".", "c", "s", "v">>],
    xml  |-> [mimeType |-> "application/xml", extension |-> <<".", "x", "m", "l">>] ]

\* formatConfig.formatter(prompt, includeMetadata) for the entry `name` of
\* formatSettings.
formatter(name, prompt, includeMetadata) ==
  CASE name = "txt" -> formatTxtFile(prompt, includeMetadata)
    [] name = "csv" -> formatCsvFile(prompt, includeMetadata)
    [] name = "xml" -> formatXmlFile(prompt, includeMetadata)
    [] OTHER -> formatJsonFile(prompt, includeMetadata)

\* `_${new Date().toISOString().replace(/:/g, '-').replace(/\..+/g, '')}`
FileTimestamp ==
  LET dashed == [k \in 1..Len(ISOTimestamp) |->
                   IF ISOTimestamp[k] = ":" THEN "-" ELSE ISOTimestamp[k]]
      dots   == {k \in 1..Len(dashed) : dashed[k] = "." /\ k < Len(dashed)}
  IN  <<"_">> \o (IF dots = {} THEN dashed
                ELSE SubSeq(dashed, 1, (CHOOSE k \in dots : \A d \in dots : k <= d) - 1))

\* this.formatSettings[format] || this.formatSettings.json: the name of the
\* entry used.
FormatConfigName(format) == IF format \in DOMAIN formatSettings THEN format ELSE "json"

\* The argument of provider.upload in export.
uploadParams(prompt, format, includeMetadata) ==
  LET formatConfig == formatSettings[FormatConfigName(format)]
  IN  [ fileName |-> <<"p", "r", "o", "m", "p", "t">> \o FileTimestamp \o formatConfig.extension,
        content  |-> formatter(FormatConfigName(format), prompt, includeMetadata),
        mimeType |-> formatConfig.mimeType ]
      @@ (IF includeMetadata /\ HasMetadata(prompt)
          THEN [metadata |-> prompt.metadata] ELSE <<>>)

\* How the promise of a storage provider's upload settles.  The mock uploads of
\* the repository always resolve; a rejection stands for the failure of the
\* storage service behind the provider that replaces the mock.
UploadOutcomes == {"resolve", "reject"}

\* export with a rejected upload taken for a resolved one without a url.
exportSwallowsUploadFailure(prompt, format, includeMetadata, upload) ==
  LET params == uploadParams(prompt, format, includeMetadata)
  IN  [ threw |-> FALSE,
        value |-> [ fileName |-> params.fileName,
                    format  |-> format,
                    url     |-> IF upload = "reject" THEN Undefined
                                ELSE "https://drive.google.com/file/d/<mock id>/view",
                    storage |-> "Google Drive",
                    timestamp |-> ISOTimestamp,
                    size |-> Len(params.content) ] ]

\* ExportEngine.export(prompt, format, includeMetadata) with the default
\* storage, Google Drive: `await provider.upload(...)` has no handler, so a
\* rejected upload rejects export.
export(prompt, format, includeMetadata, upload) ==
  LET params == uploadParams(prompt, format, includeMetadata)
  IN  IF upload = "reject"
      THEN [threw |-> TRUE, message |-> "<upload error>"]
      ELSE [ threw |-> FALSE,
             value |-> [ fileName |-> params.fileName,
                         format  |-> format,
                         url     |-> "https://drive.google.com/file/d/<mock id>/view",
                         storage |-> "Google Drive",
                         timestamp |-> ISOTimestamp,
                         size |-> Len(params.content) ] ]

\* The placeholder ExportEngine of the orchestrator's file.
placeholderExport(prompt, format, includeMetadata) ==
  [threw |-> FALSE, value |-> [url |-> "https://example.com/export"]]

-----------------------------------------------------------------------------
(* ExportSpec: one call of ExportEngine.export                             *)

MaxPromptText == 20

\* The prompts handed to export: shaped prompts with contents shorter than
\* MaxPromptText, with and without metadata.
EnginePrompts == {prompt \in TransformerPrompts : Len(prompt.content) < MaxPromptText}

ExportInit ==
  /\ ePrompt \in EnginePrompts
  /\ eFormat \in UnitFormats
  /\ eIncludeMetadata \in BOOLEAN
  /\ ePc = "format"
  /\ eParams = Undefined
  /\ eResult = Undefined
  /\ ValidatorUnused
  /\ TransformerUnused
  /\ NormalizeUnused
  /\ ParseUnused
  /\ PipelineUnused

\* The file name and the content are made: formatConfig.formatter(prompt, includeMetadata)
FormatFile ==
  /\ ePc = "format"
  /\ eParams' = uploadParams(ePrompt, eFormat, eIncludeMetadata)
  /\ ePc' = "upload"
  /\ UNCHANGED <<ePrompt, eFormat, eIncludeMetadata, eResult, validatorVars,
                 transformerVars, normalizeVars, parseVars, pipelineVars>>

\* await provider.upload({...}) settles and export returns or rejects.
Upload ==
  /\ ePc = "upload"
  /\ \E upload \in UploadOutcomes :
       /\ eResult' = export(ePrompt, eFormat, eIncludeMetadata, upload)
       /\ ePc' = IF eResult'.threw THEN "thrown" ELSE "returned"
  /\ UNCHANGED <<ePrompt, eFormat, eIncludeMetadata, eParams, validatorVars,
                 transformerVars, normalizeVars, parseVars, pipelineVars>>

ExportNext ==
  \/ FormatFile
  \/ Upload

ExportSpec == ExportInit /\ [][ExportNext]_vars
-----------------------------------------------------------------------------
(* VeoPromptExporter: the orchestrator                                     *)

\* this.config of the orchestrator (the constructor's defaults, which the
\* server passes as well).
config ==
  [ debug |-> FALSE, useGemini |-> TRUE,
    defaultPlatform |-> "midjourney", defaultFormat |-> "json" ]

\* this.supportedPlatforms
supportedPlatforms ==
  << [id |-> "midjourney", name |-> "Midjourney", supportedFormats |-> <<"json", "txt">>],
     [id |-> "stable_diffusion", name |-> "Stable Diffusion",
      supportedFormats |-> <<"json", "txt">>],
     [id |-> "dall_e", name |-> "DALL-E", supportedFormats |-> <<"json", "txt">>],
     [id |-> "runway", name |-> "Runway", supportedFormats |-> <<"json">>],
     [id |-> "custom", name |-> "Custom Platform",
      supportedFormats |-> <<"json", "txt", "csv", "xml">>] >>

\* A format list with an entry that no other table has.
supportedFormatsWithYaml ==
  << [id |-> "json", name |-> "JSON", mimeType |-> "application/json", extension |-> ".json"],
     [id |-> "txt", name |-> "Plain Text", mimeType |-> "text/plain", extension |-> ".txt"],
     [id |-> "csv", name |-> "CSV", mimeType |-> "text/csv", extension |-> ".csv"],
     [id |-> "xml", name |-> "XML", mimeType |-> "application/xml", extension |-> ".xml"],
     [id |-> "yaml", name |-> "YAML", mimeType |-> "application/x-yaml", extension |-> ".yaml"] >>

\* this.supportedFormats
supportedFormats ==
  << [id |-> "json", name |-> "JSON", mimeType |-> "application/json", extension |-> ".json"],
     [id |-> "txt", name |-> "Plain Text", mimeType |-> "text/plain", extension |-> ".txt"],
     [id |-> "csv", name |-> "CSV", mimeType |-> "text/csv", extension |-> ".csv"],
     [id |-> "xml", name |-> "XML", mimeType |-> "application/xml", extension |-> ".xml"] >>

\* value || fallback, for an option that is undefined, '' or an identifier.
OrDefault(value, fallback) ==
  IF value = Undefined \/ value = "" THEN fallback ELSE value

\* A destructuring default: `name = fallback` applies to undefined only.
DestructuredDefault(value, fallback) ==
  IF value = Undefined THEN fallback ELSE value

\* The enhancementOptions that exportPrompt destructures.
defaultEnhancementOptions ==
  [useGemini |-> config.useGemini, detailLevel |-> "standard", includeMetadata |-> TRUE]

\* VeoPromptExporter._validateExportOptions(options): the message of the Error
\* it throws, "ok" when it returns.
validateExportOptions(opts) ==
  IF ~Truthy(opts.sourceContent) THEN "Source content is required"
  ELSE IF \A k \in 1..Len(supportedPlatforms) :
            supportedPlatforms[k].id # OrDefault(opts.targetPlatform, config.defaultPlatform)
  THEN "Unsupported platform"
  ELSE IF \A k \in 1..Len(supportedFormats) :
            supportedFormats[k].id # OrDefault(opts.exportFormat, config.defaultFormat)
  THEN "Unsupported export format"
  ELSE "ok"

EnhancerText ==
  [ Enhanced |-> <<"E", "n", "h", "a", "n", "c", "e", "d", ":", " ">>,
    cyberpunk |-> <<"c", "y", "b", "e", "r", "p", "u", "n", "k">>,
    noir |-> <<"n", "o", "i", "r">>,
    standard |-> <<"s", "t", "a", "n", "d", "a", "r", "d">>,
    scene |-> <<"s", "c", "e", "n", "e">>,
    unspecified |-> <<"u", "n", "s", "p", "e", "c", "i", "f", "i", "e", "d">> ]

\* VeoPromptExporter._enhanceWithGemini(prompt, platform, detailLevel): the mock
\* enhancement; prompt.content.toLowerCase() is a TypeError, which rejects the
\* call, when the content is not a string.
enhanceWithGemini(prompt, platform, detailLevel) ==
  IF prompt.content.type # "string"
  THEN [threw |-> TRUE, message |-> "prompt.content.toLowerCase is not a function"]
  ELSE LET promptText == ToLowerCase(prompt.content.str)
       IN  [ threw |-> FALSE,
             value |->
               [ content  |-> StringValue(EnhancerText.Enhanced \o prompt.content.str),
                 metadata |->
                   [ style   |-> IF Includes(promptText, EnhancerText.cyberpunk) THEN EnhancerText.cyberpunk
                                 ELSE IF Includes(promptText, EnhancerText.noir) THEN Word.film_noir
                                 ELSE EnhancerText.standard,
                     subject |-> IF Includes(promptText, Keyword.detective) THEN Keyword.detective
                                 ELSE EnhancerText.scene,
                     setting |-> IF Includes(promptText, Keyword.urban) THEN Keyword.urban
                                 ELSE IF Includes(promptText, Keyword.office) THEN Keyword.office
                                 ELSE EnhancerText.unspecified,
                     quality |-> IF Includes(promptText, Keyword.detailed) THEN Keyword.detailed
                                 ELSE EnhancerText.standard,
                     generatedTimestamp |-> ISOTimestamp ] ] ]

\* The placeholder PromptValidator and FormatTransformer of the orchestrator's file.
placeholderValidate(prompt, platform) ==
  [status |-> "valid", message |-> <<"Prompt is valid">>]

placeholderTransform(prompt, platform, format) == prompt

\* A prompt of the orchestrator as the validator and transformer modules read
\* it: its content is a string.
WithStringContent(prompt) == [prompt EXCEPT !.content = @.str]

\* The order of the stages of exportPrompt with validation and transformation
\* exchanged.
nextStageTransformFirst(stage, enhancementOptions) ==
  CASE stage = "options" -> "parse"
    [] stage = "parse" -> IF enhancementOptions.useGemini THEN "enhance" ELSE "transform"
    [] stage = "enhance" -> "transform"
    [] stage = "transform" -> "validate"
    [] stage = "validate" -> "export"
    [] stage = "export" -> "return"

\* The order in which exportPrompt runs its stages: the statement it continues
\* with when `stage` has completed.
nextStage(stage, enhancementOptions) ==
  CASE stage = "options" -> "parse"
    [] stage = "parse" -> IF enhancementOptions.useGemini THEN "enhance" ELSE "validate"
    [] stage = "enhance" -> "validate"
    [] stage = "validate" -> "transform"
    [] stage = "transform" -> "export"
    [] stage = "export" -> "return"

\* The summary with every prompt that is not valid counted as a warning.
summaryNotValidIsWarning(status) ==
  [ totalPrompts   |-> 1,
    validPrompts   |-> IF status = "valid" THEN 1 ELSE 0,
    warningPrompts |-> IF status # "valid" THEN 1 ELSE 0,
    errorPrompts   |-> IF status = "error" THEN 1 ELSE 0 ]

\* The summary with the error counter left at zero.
summaryNoErrorCount(status) ==
  [ totalPrompts   |-> 1,
    validPrompts   |-> IF status = "valid" THEN 1 ELSE 0,
    warningPrompts |-> IF status = "warning" THEN 1 ELSE 0,
    errorPrompts   |-> 0 ]

\* The summary of exportPrompt's result.
summary(status) ==
  [ totalPrompts   |-> 1,
    validPrompts   |-> IF status = "valid" THEN 1 ELSE 0,
    warningPrompts |-> IF status = "warning" THEN 1 ELSE 0,
    errorPrompts   |-> IF status = "error" THEN 1 ELSE 0 ]

\* The result with the export url withheld from a prompt that failed validation.
exportPromptResultBlocksErrors(sourceContent, prompt, validation, exported) ==
  [ exportedPrompts |->
      << [ id |-> "prompt_<Date.now()>",
           prompt |-> sourceContent,
           enhancedPrompt |-> prompt.content,
           metadata |-> prompt.metadata,
           validationStatus |-> validation.status,
           validationMessage |-> validation.message ] >>,
    summary |-> summary(validation.status),
    exportUrl |-> IF validation.status = "error" THEN Undefined ELSE exported.url ]

\* The object exportPrompt returns.
exportPromptResult(sourceContent, prompt, validation, exported) ==
  [ exportedPrompts |->
      << [ id |-> "prompt_<Date.now()>",
           prompt |-> sourceContent,
           enhancedPrompt |-> prompt.content,
           metadata |-> prompt.metadata,
           validationStatus |-> validation.status,
           validationMessage |-> validation.message ] >>,
    summary |-> summary(validation.status),
    exportUrl |-> exported.url ]

\* The object the mock batchProcessFolder returns.
batchResult(folderId) ==
  [ exportedPrompts |->
      << [ id |-> "prompt_batch_<Date.now()>",
           prompt |-> "Example batch processed prompt",
           metadata |-> [source |-> <<"folder_", folderId>>],
           validationStatus |-> "valid",
           validationMessage |-> "Batch processing completed successfully" ] >>,
    summary |-> [totalPrompts |-> 1, validPrompts |-> 1,
                 warningPrompts |-> 0, errorPrompts |-> 0],
    exportUrl |-> <<"https://drive.google.com/drive/folders/", folderId>> ]

-----------------------------------------------------------------------------
(* Inputs of exportPrompt and batchProcessFolder                           *)

SampleText ==
  [ blank |-> <<" ", " ", " ">>,
    blank_line |-> <<" ", "\n", " ">>,
    NSFW_cat |-> <<"N", "S", "F", "W", " ", "c", "a", "t">>,
    Cinematic_scene |-> <<"C", "i", "n", "e", "m", "a", "t", "i", "c", " ", "u", "r", "b", "a", "n", " ", "s", "c", "e", "n", "e", " ", "w", "i", "t", "h", " ", "d", "r", "a", "m", "a", "t", "i", "c", " ", "l", "i", "g", "h", "t", "i", "n", "g">>,
    noir_detective |-> <<"A", " ", " ", "d", "e", "t", "a", "i", "l", "e", "d">> \o <<"\n">> \o <<"n", "o", "i", "r", " ", "d", "e", "t", "e", "c", "t", "i", "v", "e", " ">>,
    stylize_bad |-> <<"c", "a", "t", " ", "s", "t", "y", "l", "i", "z", "e", ":", "2", "0", "0", "0">> ]

SourceContents ==
  { UndefinedValue, NumberValue, StringValue(<<>>), StringValue(SampleText.blank),
    StringValue(SampleText.blank_line), StringValue(Word.cat), StringValue(SampleText.NSFW_cat),
    StringValue(SampleText.Cinematic_scene), StringValue(SampleText.noir_detective),
    StringValue(SampleText.stylize_bad) }

SourceTypes == {Undefined, "document"}

TargetPlatforms ==
  {Undefined, "", "unknown_platform"} \cup {supportedPlatforms[k].id : k \in 1..Len(supportedPlatforms)}

ExportFormats ==
  {Undefined, "", "yaml"} \cup {supportedFormats[k].id : k \in 1..Len(supportedFormats)}

EnhancementOptions ==
  { [useGemini |-> FALSE, detailLevel |-> "basic", includeMetadata |-> TRUE],
    [useGemini |-> TRUE, detailLevel |-> "detailed", includeMetadata |-> FALSE] }

\* The options objects: without and with the property enhancementOptions.
ExportOptions ==
  [ sourceContent : SourceContents, sourceType : SourceTypes,
    targetPlatform : TargetPlatforms, exportFormat : ExportFormats ]
    \cup
  [ sourceContent : SourceContents, sourceType : SourceTypes,
    targetPlatform : TargetPlatforms, exportFormat : ExportFormats,
    enhancementOptions : EnhancementOptions ]

\* The Google Drive folders a caller can name and the items each holds: the
\* environment of batchProcessFolder, which the mock never reads.
driveFolders ==
  [ folder_0 |-> <<>>,
    folder_1 |-> <<Word.cat>>,
    folder_2 |-> <<Word.cat, SampleText.NSFW_cat>> ]

FolderIds == DOMAIN driveFolders

-----------------------------------------------------------------------------
(* Spec: one call of exportPrompt, stage by stage, or of batchProcessFolder *)

\* The values exportPrompt destructures from its options.
sourceType == DestructuredDefault(options.sourceType, "text")
targetPlatform == DestructuredDefault(options.targetPlatform, config.defaultPlatform)
exportFormat == DestructuredDefault(options.exportFormat, config.defaultFormat)
enhancementOptions ==
  IF Has(options, "enhancementOptions") THEN options.enhancementOptions
  ELSE defaultEnhancementOptions

Init ==
  /\ classes \in {"placeholders", "modules"}
  /\ pc = "idle"
  /\ options = Undefined
  /\ parsedPrompt = Undefined
  /\ enhancedPrompt = Undefined
  /\ validationResult = Undefined
  /\ formattedPrompt = Undefined
  /\ exportResult = Undefined
  /\ outcome = Undefined
  /\ trace = <<>>
  /\ response = <<>>
  /\ ValidatorUnused
  /\ TransformerUnused
  /\ EngineUnused
  /\ NormalizeUnused
  /\ ParseUnused

\* catch (error) { throw new Error(`Failed to export prompt: ${error.message}`) }
Throw(message) ==
  /\ pc' = "thrown"
  /\ outcome' = [threw |-> TRUE, message |-> <<"Failed to export prompt: ", message>>]

\* A caller invokes exportPrompt(options).
ExportPromptCall ==
  /\ pc = "idle"
  /\ \E o \in ExportOptions : options' = o
  /\ pc' = "options"
  /\ UNCHANGED <<classes, parsedPrompt, enhancedPrompt, validationResult,
                 formattedPrompt, exportResult, outcome, trace, response, unitVars>>

\* this._validateExportOptions(options)
ValidateOptions ==
  /\ pc = "options"
  /\ IF validateExportOptions(options) = "ok"
     THEN pc' = nextStage("options", enhancementOptions) /\ UNCHANGED outcome
     ELSE Throw(validateExportOptions(options))
  /\ UNCHANGED <<classes, options, parsedPrompt, enhancedPrompt, validationResult,
                 formattedPrompt, exportResult, trace, response, unitVars>>

\* const parsedPrompt = await this.parser.parse(sourceContent, sourceType)
Parse ==
  /\ pc = "parse"
  /\ \E r \in {IF classes = "modules"
              THEN parse(options.sourceContent, sourceType)
              ELSE placeholderParse(options.sourceContent, sourceType)} :
         IF r.threw
         THEN /\ Throw(r.message)
              /\ trace' = trace \o << <<"parse", "call">>, <<"parse", "throw">> >>
              /\ UNCHANGED <<parsedPrompt, enhancedPrompt>>
         ELSE /\ parsedPrompt' = r.value
              /\ enhancedPrompt' = r.value      \* let enhancedPrompt = parsedPrompt
              /\ trace' = trace \o << <<"parse", "call">>, <<"parse", "return">> >>
              /\ pc' = nextStage("parse", enhancementOptions)
              /\ UNCHANGED outcome
  /\ UNCHANGED <<classes, options, validationResult, formattedPrompt,
                 exportResult, response, unitVars>>

\* enhancedPrompt = await this._enhanceWithGemini(parsedPrompt, targetPlatform, detailLevel)
Enhance ==
  /\ pc = "enhance"
  /\ LET r == enhanceWithGemini(parsedPrompt, targetPlatform,
                                enhancementOptions.detailLevel)
     IN  IF r.threw
         THEN /\ Throw(r.message)
              /\ trace' = trace \o << <<"enhance", "call">>, <<"enhance", "throw">> >>
              /\ UNCHANGED enhancedPrompt
         ELSE /\ enhancedPrompt' = r.value
              /\ trace' = trace \o << <<"enhance", "call">>, <<"enhance", "return">> >>
              /\ pc' = nextStage("enhance", enhancementOptions)
              /\ UNCHANGED outcome
  /\ UNCHANGED <<classes, options, parsedPrompt, validationResult,
                 formattedPrompt, exportResult, response, unitVars>>

\* const validationResult = this.validator.validate(enhancedPrompt, targetPlatform)
Validate ==
  /\ pc = "validate"
  /\ validationResult' =
       IF classes = "modules"
       THEN validate(WithStringContent(enhancedPrompt), targetPlatform)
       ELSE placeholderValidate(enhancedPrompt, targetPlatform)
  /\ trace' = trace \o << <<"validate", "call">>, <<"validate", "return">> >>
  /\ pc' = nextStage("validate", enhancementOptions)
  /\ UNCHANGED <<classes, options, parsedPrompt, enhancedPrompt, formattedPrompt,
                 exportResult, outcome, response, unitVars>>

\* const formattedPrompt = this.transformer.transform(enhancedPrompt, targetPlatform, exportFormat)
TransformStage ==
  /\ pc = "transform"
  /\ formattedPrompt' =
       IF classes = "modules"
       THEN transform(WithStringContent(enhancedPrompt), targetPlatform, exportFormat)
       ELSE placeholderTransform(enhancedPrompt, targetPlatform, exportFormat)
  /\ trace' = trace \o << <<"transform", "call">>, <<"transform", "return">> >>
  /\ pc' = nextStage("transform", enhancementOptions)
  /\ UNCHANGED <<classes, options, parsedPrompt, enhancedPrompt, validationResult,
                 exportResult, outcome, response, unitVars>>

\* const exportResult = await this.exportEngine.export(formattedPrompt, exportFormat, includeMetadata)
Export ==
  /\ pc = "export"
  /\ \E upload \in IF classes = "modules" THEN UploadOutcomes ELSE {"none"} :
       LET r == IF classes = "modules"
                THEN export(formattedPrompt, exportFormat,
                            enhancementOptions.includeMetadata, upload)
                ELSE placeholderExport(formattedPrompt, exportFormat,
                                       enhancementOptions.includeMetadata)
           uploads == IF classes = "modules" THEN << <<"upload", upload>> >> ELSE <<>>
       IN  IF r.threw
           THEN /\ Throw(r.message)
                /\ trace' = trace \o << <<"export", "call">> >> \o uploads
                                  \o << <<"export", "throw">> >>
                /\ UNCHANGED exportResult
           ELSE /\ exportResult' = r.value
                /\ trace' = trace \o << <<"export", "call">> >> \o uploads
                                  \o << <<"export", "return">> >>
                /\ pc' = nextStage("export", enhancementOptions)
                /\ UNCHANGED outcome
  /\ UNCHANGED <<classes, options, parsedPrompt, enhancedPrompt, validationResult,
                 formattedPrompt, response, unitVars>>

\* return { exportedPrompts: [...], summary: {...}, exportUrl: exportResult.url }
Return ==
  /\ pc = "return"
  /\ outcome' = [ threw |-> FALSE, method |-> "exportPrompt",
                  value |-> exportPromptResult(options.sourceContent, enhancedPrompt,
                                               validationResult, exportResult) ]
  /\ pc' = "returned"
  /\ UNCHANGED <<classes, options, parsedPrompt, enhancedPrompt, validationResult,
                 formattedPrompt, exportResult, trace, response, unitVars>>

\* A caller invokes batchProcessFolder(options); the mock returns at once.
BatchProcessFolder ==
  /\ pc = "idle"
  /\ \E folderId \in FolderIds, platform \in TargetPlatforms :
       /\ options' = [folderId |-> folderId, targetPlatform |-> platform]
       /\ outcome' = [ threw |-> FALSE, method |-> "batchProcessFolder",
                       value |-> batchResult(folderId) ]
  /\ pc' = "returned"
  /\ UNCHANGED <<classes, parsedPrompt, enhancedPrompt, validationResult,
                 formattedPrompt, exportResult, trace, response, unitVars>>

\* The response of a route of server.js for a settled call of the exporter:
\* res.json(result), or res.status(400).json({ error: error.message }) in the
\* catch of the route.
routeResponse(settled) ==
  IF settled.threw
  THEN [status |-> 400, body |-> [error |-> settled.message]]
  ELSE [status |-> 200, body |-> settled.value]

\* app.post('/api/export', ...): the response, once exportPrompt(req.body) has
\* settled.
PostApiExport ==
  /\ pc \in {"returned", "thrown"}
  /\ response = <<>>
  /\ IF outcome.threw THEN TRUE ELSE outcome.method = "exportPrompt"
  /\ response' = <<routeResponse(outcome)>>
  /\ UNCHANGED <<classes, pc, options, parsedPrompt, enhancedPrompt, validationResult,
                 formattedPrompt, exportResult, outcome, trace, unitVars>>

\* app.post('/api/batch', ...): the response, once batchProcessFolder(req.body)
\* has settled.
PostApiBatch ==
  /\ pc \in {"returned", "thrown"}
  /\ response = <<>>
  /\ IF outcome.threw THEN FALSE ELSE outcome.method = "batchProcessFolder"
  /\ response' = <<routeResponse(outcome)>>
  /\ UNCHANGED <<classes, pc, options, parsedPrompt, enhancedPrompt, validationResult,
                 formattedPrompt, exportResult, outcome, trace, unitVars>>

Next ==
  \/ ExportPromptCall
  \/ ValidateOptions
  \/ Parse
  \/ Enhance
  \/ Validate
  \/ TransformStage
  \/ Export
  \/ Return
  \/ BatchProcessFolder
  \/ PostApiExport
  \/ PostApiBatch

Spec == Init /\ [][Next]_vars

-----------------------------------------------------------------------------
(* Properties of PromptValidator.validate (ValidatorSpec)                  *)

StatusRank == [valid |-> 0, warning |-> 1, error |-> 2]

\* C1: within one call of validate the status only moves upward in the order
\* valid < warning < error: no check (length, forbidden phrases, required
\* elements, inline parameters, final message) leaves it lower than it found it.
C1_StatusNeverRegresses ==
  [][StatusRank[vResult.status] <= StatusRank[vResult'.status]]_vars

\* A call that reached error and had warnings appended by a later check.
C1_Witness ==
  /\ vPc = "returned"
  /\ vResult.status = "error"
  /\ \E k \in 1..Len(vResult.warnings) :
       vResult.warnings[k][1] = "Prompt may be missing required element"

\* Whether the content holds a forbidden phrase of the platform in some letter case.
HoldsForbiddenPhrase(content, platform) ==
  /\ platform \in DOMAIN validationRules
  /\ \E k \in 1..Len(validationRules[platform].forbiddenPhrases) :
       Includes(ToLowerCase(content),
                ToLowerCase(validationRules[platform].forbiddenPhrases[k]))

\* C2: for a platform with forbidden phrases and a content that holds one of
\* them in any letter case, validate returns status error with at least one
\* error, and the content in another letter case (its lower-case form, which
\* all contents differing only in case share) gets the same status and errors.
C2_ForbiddenPhraseAnyCase ==
  (vPc = "returned" /\ HoldsForbiddenPhrase(vPrompt.content, vPlatform))
    => /\ vResult.status = "error"
       /\ Len(vResult.errors) >= 1
       /\ LET lower == validate([content |-> ToLowerCase(vPrompt.content)], vPlatform)
          IN  lower.status = vResult.status /\ lower.errors = vResult.errors

\* A returned call on a content that holds a forbidden phrase in upper case.
C2_Witness ==
  /\ vPc = "returned"
  /\ HoldsForbiddenPhrase(vPrompt.content, vPlatform)
  /\ vPrompt.content # ToLowerCase(vPrompt.content)
  /\ ~Includes(vPrompt.content, RuleText.nsfw)
  /\ vResult.status = "error"

\* status, warnings and errors of two verdicts agree (the message, which
\* echoes the platform name, aside).
SameVerdict(a, b) ==
  a.status = b.status /\ a.warnings = b.warnings /\ a.errors = b.errors

\* C8 (as claimed): for every platform identifier that is not a key of the rule
\* table, validate returns what it returns for platform custom.
C8_UnknownPlatformIsCustom ==
  (vPc = "returned" /\ vPlatform \notin DOMAIN validationRules)
    => SameVerdict(vResult, validate(vPrompt, "custom"))

-----------------------------------------------------------------------------
(* Properties of FormatTransformer.transform (TransformerSpec)             *)

\* C3 (as claimed): the content of the prompt returned by transform is at most
\* the platform profile's maxLength long (stated for the platforms of the table).
C3_ContentWithinMaxLength ==
  (tPc = "returned" /\ tPlatform \in DOMAIN platformRules)
    => Len(tResult.content) <= platformRules[tPlatform].maxLength

-----------------------------------------------------------------------------
(* Properties of exportPrompt and batchProcessFolder (Spec)                *)

\* The component call `event` (<<component, "call" | "return" | "throw">>)
\* occurs in the trace before position k.
Before(event, k) == \E j \in 1..(k - 1) : trace[j] = event

Occurred(event) == Before(event, Len(trace) + 1)

\* C4 (as claimed): a rejection of the enhancer call does not make exportPrompt
\* fail.
C4_EnhancementFailureNotFatal ==
  Occurred(<<"enhance", "throw">>) => pc # "thrown"

\* content is the empty string or consists of white space only.
IsBlank(content) ==
  content.type = "string" /\ \A k \in 1..Len(content.str) : IsSpace(content.str[k])

\* C5 (as claimed): PromptParser.parse fails for every content that is empty
\* or white space only, and no prompt with empty content is passed to the
\* validator or the transformer.
C5_BlankContentRejected ==
  classes = "modules"
    => /\ (Occurred(<<"parse", "call">>) /\ IsBlank(options.sourceContent))
            => Occurred(<<"parse", "throw">>)
       /\ (Occurred(<<"validate", "call">>) \/ Occurred(<<"transform", "call">>))
            => Len(enhancedPrompt.content.str) > 0

\* C6: in every run of exportPrompt the enhancer is called only after the
\* parser has returned; the validator only after the parser has returned and,
\* when enhancement is requested, the enhancer has returned, and with no call
\* of the enhancer when it is not; the transformer only after the validator
\* has returned; the export engine only after the transformer has returned.
C6_StagesInOrder ==
  \A k \in 1..Len(trace) :
    /\ trace[k] = <<"enhance", "call">> =>
         Before(<<"parse", "return">>, k) /\ enhancementOptions.useGemini
    /\ trace[k] = <<"validate", "call">> =>
         /\ Before(<<"parse", "return">>, k)
         /\ IF enhancementOptions.useGemini
            THEN Before(<<"enhance", "return">>, k)
            ELSE ~Occurred(<<"enhance", "call">>)
    /\ trace[k] = <<"transform", "call">> => Before(<<"validate", "return">>, k)
    /\ trace[k] = <<"export", "call">> => Before(<<"transform", "return">>, k)

\* A run with enhancement that went through all five stages and returned.
C6_Witness ==
  /\ pc = "returned"
  /\ Occurred(<<"enhance", "return">>)
  /\ Occurred(<<"export", "return">>)

SupportedPlatformIds == {supportedPlatforms[k].id : k \in 1..Len(supportedPlatforms)}
SupportedFormatIds == {supportedFormats[k].id : k \in 1..Len(supportedFormats)}

\* The call is one of exportPrompt whose option validation has run.
OptionsValidated ==
  pc \notin {"idle", "options"} /\ Has(options, "sourceContent")

\* C7 (as claimed): a call of exportPrompt with a targetPlatform that is not a
\* supported platform, with an exportFormat that is not a supported format, or
\* without sourceContent fails with no component of the pipeline invoked.
C7_UnsupportedOptionsFailFast ==
  ( /\ OptionsValidated
    /\ \/ options.targetPlatform \notin SupportedPlatformIds \cup {Undefined}
       \/ options.exportFormat \notin SupportedFormatIds \cup {Undefined}
       \/ ~Truthy(options.sourceContent) )
    => pc = "thrown" /\ trace = <<>>

\* C9: when the validator has returned status error, exportPrompt does not
\* throw on that account (the run goes on to transform and export, and only a
\* failure of the export engine can still end it); it returns a result whose
\* single exported prompt has validationStatus error and whose summary has
\* errorPrompts = 1.
C9_ValidationErrorIsReturned ==
  (Occurred(<<"validate", "return">>) /\ validationResult.status = "error")
    => /\ \/ pc \in {"transform", "export", "return", "returned"}
          \/ pc = "thrown" /\ Occurred(<<"export", "throw">>)
       /\ pc = "returned" =>
            /\ ~outcome.threw
            /\ Len(outcome.value.exportedPrompts) = 1
            /\ outcome.value.exportedPrompts[1].validationStatus = "error"
            /\ outcome.value.summary.errorPrompts = 1

\* A returned call of exportPrompt whose prompt the validator rejected.
C9_Witness ==
  /\ pc = "returned"
  /\ Occurred(<<"validate", "return">>)
  /\ validationResult.status = "error"
  /\ outcome.value.summary.errorPrompts = 1

\* The number of exported prompts of a result with the given validationStatus.
CountStatus(result, status) ==
  Cardinality({k \in 1..Len(result.exportedPrompts) :
                 result.exportedPrompts[k].validationStatus = status})

\* C10: every result returned by exportPrompt or batchProcessFolder has
\* validPrompts + warningPrompts + errorPrompts = totalPrompts = the number of
\* exported prompts, and each counter is the number of exported prompts with
\* that validationStatus, every prompt having one of the three.
C10_SummaryCountsAddUp ==
  pc = "returned" =>
    LET result == outcome.value
        s == result.summary
    IN  /\ s.validPrompts + s.warningPrompts + s.errorPrompts = s.totalPrompts
        /\ s.totalPrompts = Len(result.exportedPrompts)
        /\ s.validPrompts = CountStatus(result, "valid")
        /\ s.warningPrompts = CountStatus(result, "warning")
        /\ s.errorPrompts = CountStatus(result, "error")
        /\ \A k \in 1..Len(result.exportedPrompts) :
             result.exportedPrompts[k].validationStatus \in {"valid", "warning", "error"}

\* A result of exportPrompt whose prompt got a warning from the validator.
C10_Witness ==
  /\ pc = "returned"
  /\ outcome.method = "exportPrompt"
  /\ outcome.value.exportedPrompts[1].validationStatus = "warning"
  /\ outcome.value.summary.warningPrompts = 1

\* C11 (as claimed): for a folder that holds N items batchProcessFolder returns
\* N exported prompts and summary.totalPrompts = N.
C11_BatchReturnsOnePromptPerItem ==
  (pc = "returned" /\ outcome.method = "batchProcessFolder")
    => /\ Len(outcome.value.exportedPrompts) = Len(driveFolders[options.folderId])
       /\ outcome.value.summary.totalPrompts = Len(driveFolders[options.folderId])

RecoversPrompt(text, prompt) ==
  LET parsed == JSONParse(text)
  IN  /\ ~parsed.threw
      /\ parsed.value.type = "object"
      /\ Property(parsed.value, <<"p", "r", "o", "m", "p", "t">>) = StringValue(prompt.content)
      /\ Property(parsed.value, <<"m", "e", "t", "a", "d", "a", "t", "a">>)
           = ObjectValue(ObjectEntries(prompt.metadata))

\* C13: for every shaped prompt, parsing the JSON text of the JSON rendering
\* (the transformer's json format, and the export engine's JSON file with the
\* metadata included) yields an object whose prompt field is the shaped
\* content and whose metadata field is the shaped metadata.
C13_JsonRoundTrip ==
  (tPc = "returned" /\ tFormat = "json")
    => /\ RecoversPrompt(tResult.formatted, tResult)
       /\ RecoversPrompt(formatJsonFile(tResult, TRUE), tResult)

C13_Witness ==
  /\ tPc = "returned" /\ tFormat = "json"
  /\ \E k \in 1..Len(tResult.content) : tResult.content[k] = "\""
  /\ \E k \in 1..Len(tResult.content) : tResult.content[k] = "\n"
  /\ "styles" \in DOMAIN tResult.metadata
  /\ tResult.metadata.styles # <<>>
  /\ RecoversPrompt(tResult.formatted, tResult)

\* The warnings of the parameter checks and of the required-element check.
IsAdvisoryWarning(warning) ==
  warning[1] \in { "Parameter has invalid format", "Parameter is out of range",
                   "Parameter has invalid value",
                   "Prompt may be missing required element" }

\* C14: for every platform and every content that holds none of the platform's
\* forbidden phrases, validate does not return status error, whatever inline
\* parameters or missing required elements the content has: it records no
\* error, and those violations leave the status at warning.
C14_OnlyForbiddenContentIsAnError ==
  (vPc = "returned" /\ ~HoldsForbiddenPhrase(vPrompt.content, vPlatform))
    => /\ vResult.status # "error"
       /\ vResult.errors = <<>>
       /\ (\E k \in 1..Len(vResult.warnings) : IsAdvisoryWarning(vResult.warnings[k]))
            => vResult.status = "warning"

\* A returned call without forbidden content in which two parameter or
\* required-element violations were recorded.
C14_Witness ==
  /\ vPc = "returned"
  /\ ~HoldsForbiddenPhrase(vPrompt.content, vPlatform)
  /\ \E j, k \in 1..Len(vResult.warnings) :
       /\ j < k
       /\ IsAdvisoryWarning(vResult.warnings[j])
       /\ IsAdvisoryWarning(vResult.warnings[k])
  /\ vResult.status = "warning"

\* The value of a name:value token as documented: the whole text after the
\* first colon.
WholeValue(token) ==
  LET colon == CHOOSE i \in 1..Len(token) :
                 token[i] = ":" /\ \A j \in 1..(i - 1) : token[j] # ":"
  IN  SubSeq(token, colon + 1, Len(token))

\* Whether the value violates the pattern, the range or the allowed values of
\* the parameter rule.
ViolatesRule(paramName, paramRule, value) ==
  CheckValidValues(
    CheckRange(CheckFormat(InitialResult(""), paramName, paramRule, value),
               paramName, paramRule, value),
    paramName, paramRule, value).warnings # <<>>

IsParameterWarning(warning, paramName) ==
  /\ warning[1] \in { "Parameter has invalid format", "Parameter is out of range",
                      "Parameter has invalid value" }
  /\ warning[2] = paramName

\* C18 (as claimed): for every name:value token of the content whose name is a
\* constrained parameter of the platform, validate appends a parameter warning
\* if and only if the whole text after the token's first colon violates the
\* parameter's pattern, range or allowed values; the midjourney token ar:16:9
\* gets no warning.
C18_WarningIffValueViolatesRule ==
  (vPc = "returned" /\ Has(RulesFor(vPlatform), "parameterRules"))
    => LET parameterRules == RulesFor(vPlatform).parameterRules
           tokens == ParamMatches(vPrompt.content, 1)
       IN  \A k \in 1..Len(tokens) :
             LET paramName == ToLowerCase(ParamOf(tokens[k]))
             IN  paramName \in DOMAIN parameterRules
                   => ((\E w \in 1..Len(vResult.warnings) :
                          IsParameterWarning(vResult.warnings[w], paramName))
                       <=> ViolatesRule(paramName, parameterRules[paramName],
                                        WholeValue(tokens[k])))

\* C20 (as claimed): for a platform whose profile has supportsTags = false
\* (dall_e), the content transform returns is the input content cut to
\* maxLength: neither styles nor qualities of the metadata are appended.
C20_NoTagsWithoutTagSupport ==
  (/\ tPc = "returned"
   /\ tPlatform \in DOMAIN platformRules
   /\ ~platformRules[tPlatform].supportsTags)
    => tResult.content
         = Substring0(tPrompt.content, platformRules[tPlatform].maxLength)

\* C16 (as claimed): exportPrompt with default options on the content
\* "Cinematic urban scene with dramatic lighting", in which the style keyword
\* is detected (platform midjourney, format json), returns a result whose
\* metadata has a styles entry derived from that detection and whose
\* validation status is valid.
C16_DetectedStyleInResultMetadata ==
  (/\ pc = "returned" /\ outcome.method = "exportPrompt"
   /\ options.sourceContent = StringValue(SampleText.Cinematic_scene)
   /\ ~Has(options, "enhancementOptions")
   /\ targetPlatform = "midjourney" /\ exportFormat = "json")
    => LET item == outcome.value.exportedPrompts[1]
       IN  /\ item.validationStatus = "valid"
           /\ Has(item.metadata, "styles")
           /\ \E k \in 1..Len(item.metadata.styles) :
                item.metadata.styles[k] = Word.cinematic

\* The messages of the errors raised for the input: by _validateExportOptions
\* and by the parser's check of the content.
InputErrors ==
  { "Source content is required", "Unsupported platform",
    "Unsupported export format", "Content cannot be empty" }

\* C15 (as claimed): POST /api/export answers 400 with {error: message} only
\* when the failure is an input error (missing content, unsupported platform
\* or format, empty content), and answers 500 with a generic message when the
\* pipeline fails for another reason, such as a failed upload.
C15_Status400OnlyForInputErrors ==
  (response # <<>> /\ outcome.threw)
    => IF outcome.message[2] \in InputErrors
       THEN response = << [status |-> 400, body |-> [error |-> outcome.message]] >>
       ELSE response[1].status = 500 /\ Len(response) = 1

-----------------------------------------------------------------------------
(* Properties of PromptParser._normalizeContent (NormalizeSpec)            *)

\* Every run of whitespace characters replaced by one space.
CollapseWhitespace(s) ==
  LET kept == SelectSeq([i \in 1..Len(s) |-> i],
                        LAMBDA i : ~IsSpace(s[i]) \/ i = 1 \/ ~IsSpace(s[i - 1]))
  IN  [k \in 1..Len(kept) |-> IF IsSpace(s[kept[k]]) THEN " " ELSE s[kept[k]]]

\* The reference sequence: trim, collapse the whitespace, cut to the limit.
ReferenceNormalize(content, limit) ==
  Substring0(CollapseWhitespace(Trim(content)), limit)

\* C19 (as claimed): for every non-empty input and configured maximum length
\* the normalization returns the text of the reference sequence (trim, collapse
\* every run of whitespace to one space, cut to the maximum length), which has
\* no leading or trailing whitespace, no two consecutive whitespace characters
\* and at most the maximum length.
C19_NormalizeIsTrimCollapseCut ==
  nPc = "returned"
    => /\ ~nResult.threw
       /\ LET text == nResult.value
          IN  /\ text = ReferenceNormalize(nContent.str, nMaxLength)
              /\ Len(text) <= nMaxLength
              /\ text # <<>> => ~IsSpace(text[1]) /\ ~IsSpace(text[Len(text)])
              /\ \A k \in 1..(Len(text) - 1) : ~(IsSpace(text[k]) /\ IsSpace(text[k + 1]))

-----------------------------------------------------------------------------
(* Properties of ExportEngine.export (ExportSpec)                          *)

\* The content names no metadata and none of the metadata's properties.
WithoutMetadata(content, prompt) ==
  /\ ~Includes(ToLowerCase(content), <<"m", "e", "t", "a", "d", "a", "t", "a">>)
  /\ HasMetadata(prompt)
       => \A name \in DOMAIN prompt.metadata : ~Includes(content, PropertyText[name])

\* The content holds the metadata: as the metadata property of the JSON
\* object, and in the other formats as the name and the text of each property.
WithMetadata(format, content, metadata) ==
  LET entries == ObjectEntries(metadata)
  IN  IF format = "json"
      THEN LET parsed == JSONParse(content)
           IN  /\ ~parsed.threw
               /\ Property(parsed.value, <<"m", "e", "t", "a", "d", "a", "t", "a">>) = ObjectValue(entries)
      ELSE /\ Includes(ToLowerCase(content), <<"m", "e", "t", "a", "d", "a", "t", "a">>) \/ format = "csv"
           /\ \A k \in 1..Len(entries) :
                /\ Includes(content, entries[k][1])
                /\ IF entries[k][2].type = "array"
                   THEN \A j \in 1..Len(entries[k][2].items) :
                          Includes(content, entries[k][2].items[j].str)
                   ELSE Includes(content, entries[k][2].str)

\* C17: for each of the formats json, txt, csv and xml, export called with
\* includeMetadata = false serializes a content with no metadata field, block
\* or column and passes no metadata (undefined) to the storage provider; called
\* with includeMetadata = true on a prompt that has metadata, it serializes a
\* content that contains that metadata.
C17_MetadataSerializedOnDemand ==
  (ePc \in {"upload", "returned", "thrown"} /\ eFormat \in DOMAIN formatSettings)
    => /\ ~eIncludeMetadata
            => /\ WithoutMetadata(eParams.content, ePrompt)
               /\ ~Has(eParams, "metadata")
       /\ (eIncludeMetadata /\ HasMetadata(ePrompt))
            => /\ WithMetadata(eFormat, eParams.content, ePrompt.metadata)
               /\ eParams.metadata = ePrompt.metadata

\* A returned txt export without metadata of a prompt that has styles.
C17_Witness ==
  /\ ePc = "returned"
  /\ eFormat = "txt"
  /\ ~eIncludeMetadata
  /\ HasMetadata(ePrompt) /\ Has(ePrompt.metadata, "styles")
  /\ ePrompt.metadata.styles # <<>>
  /\ eParams.content = ePrompt.content
  /\ eResult.value.size = Len(ePrompt.content)

-----------------------------------------------------------------------------
(* Further properties of PromptValidator.validate (ValidatorSpec)          *)

\* The length warnings of a verdict.
LengthWarnings(result) ==
  SelectSeq(result.warnings, LAMBDA w : w[1] = "Prompt exceeds maximum length of")

\* C22: validate appends the length warning, and the status is warning or
\* error, exactly when the content is strictly longer than the platform's
\* maxLength; a content as long as maxLength gets no length warning.
C22_LengthWarningIffLonger ==
  (vPc = "returned" /\ Has(RulesFor(vPlatform), "maxLength"))
    => LET maxLength == RulesFor(vPlatform).maxLength
       IN  IF Len(vPrompt.content) > maxLength
           THEN /\ LengthWarnings(vResult) = << <<"Prompt exceeds maximum length of", maxLength>> >>
                /\ vResult.status \in {"warning", "error"}
           ELSE LengthWarnings(vResult) = <<>>

\* A returned call on a content exactly as long as the platform's maxLength,
\* without any warning.
C22_Witness ==
  /\ vPc = "returned"
  /\ Has(RulesFor(vPlatform), "maxLength")
  /\ Len(vPrompt.content) = RulesFor(vPlatform).maxLength
  /\ vResult.warnings = <<>>
  /\ vResult.status = "valid"

\* C23: once the forbidden-phrase check has set the status to error, the
\* required-element and parameter checks may append warnings but leave the
\* status at error and the errors as they are, and the final message reports
\* the number of errors, not the number of warnings.
C23_ErrorIsTerminal ==
  [][ (vPc \in {"requirements", "parameters", "message"} /\ vResult.status = "error")
        => /\ vResult'.status = "error"
           /\ vResult'.errors = vResult.errors
           /\ Len(vResult'.warnings) >= Len(vResult.warnings)
           /\ vPc' = "returned"
                => vResult'.message
                     = <<"Prompt validation failed with errors for",
                         Len(vResult.errors), vPlatform>> ]_vars

\* A returned call with status error, one error and two warnings appended
\* after the forbidden-phrase check.
C23_Witness ==
  /\ vPc = "returned"
  /\ vResult.status = "error"
  /\ Len(vResult.errors) = 1
  /\ Len(vResult.warnings) = 2
  /\ \A k \in 1..2 : IsAdvisoryWarning(vResult.warnings[k])
  /\ vResult.message = <<"Prompt validation failed with errors for", 1, vPlatform>>

\* The warnings of the required-element check, in the order they were appended.
RequirementWarnings(result) ==
  SelectSeq(result.warnings, LAMBDA w : w[1] = "Prompt may be missing required element")

\* The required elements that are no substring of the content, letter case
\* aside, in the order of the rule table.
MissingRequirements(content, requirements) ==
  SelectSeq(requirements,
            LAMBDA r : ~Includes(ToLowerCase(content), ToLowerCase(r)))

\* C24: for a platform with required elements (dall_e), the required-element
\* check appends exactly one warning for each required element that is no
\* case-insensitive substring of the content and none for an element that is
\* present, and it raises the status to warning only from valid.
C24_OneWarningPerMissingElement ==
  [][ (vPc = "requirements" /\ Has(RulesFor(vPlatform), "requirements"))
        => LET missing == MissingRequirements(vPrompt.content,
                                              RulesFor(vPlatform).requirements)
           IN  /\ RequirementWarnings(vResult) = <<>>
               /\ RequirementWarnings(vResult')
                    = [k \in 1..Len(missing) |->
                         <<"Prompt may be missing required element", missing[k]>>]
               /\ Len(vResult'.warnings) = Len(vResult.warnings) + Len(missing)
               /\ vResult'.errors = vResult.errors
               /\ vResult'.status
                    = IF missing # <<>> /\ vResult.status = "valid"
                      THEN "warning" ELSE vResult.status ]_vars

\* A returned dall_e verdict for a content that holds one required element in
\* another letter case and misses the other.
C24_Witness ==
  /\ vPc = "returned"
  /\ vPlatform = "dall_e"
  /\ Includes(vPrompt.content, Word.Specific_Style)
  /\ RequirementWarnings(vResult)
       = << <<"Prompt may be missing required element",
              validationRules.dall_e.requirements[1]>> >>
  /\ vResult.status = "warning"

\* C27: every verdict validate returns is consistent: its status is error if
\* and only if it has errors, warning if and only if it has warnings and no
\* errors, and valid if and only if it has neither.
C27_VerdictIsConsistent ==
  vPc = "returned"
    => /\ vResult.status = "error" <=> vResult.errors # <<>>
       /\ vResult.status = "warning"
            <=> (vResult.errors = <<>> /\ vResult.warnings # <<>>)
       /\ vResult.status = "valid"
            <=> (vResult.errors = <<>> /\ vResult.warnings = <<>>)

\* A returned verdict whose only finding is a parameter out of its range.
C27_Witness ==
  /\ vPc = "returned"
  /\ vResult.status = "warning"
  /\ vResult.errors = <<>>
  /\ Len(vResult.warnings) = 1
  /\ vResult.warnings[1][1] = "Parameter is out of range"

-----------------------------------------------------------------------------
(* Properties of PromptParser.parse (ParseSpec)                            *)

\* C25 (as claimed): when parse is called with sourceType structured and the
\* content is a JSON document, every top-level field of the document is in the
\* returned metadata with the document's value, whatever the parser would
\* store under the same key.
C25_DocumentFieldsTakePrecedence ==
  (pPc = "returned" /\ pSourceType = "structured")
    => LET document == JSONParse(pResult.value.content.str)
       IN  (~document.threw /\ document.value.type = "object")
             => \A k \in 1..Len(document.value.entries) :
                  Property(pResult.value.metadata, document.value.entries[k][1])
                    = document.value.entries[k][2]

\* C26: when parse is called with sourceType structured and the normalized
\* content is no JSON text, parse does not fail and returns the metadata it
\* returns for the same content with sourceType text: type text and the
\* subjects, styles, qualities and settings found in the content.
C26_StructuredFallsBackToText ==
  (pPc \in {"returned", "thrown"} /\ pSourceType = "structured"
     /\ pContent.type = "string" /\ pContent.str # <<>>
     /\ JSONParse(normalizeContent(pContent, maxPromptLength).value).threw)
    => /\ pPc = "returned"
       /\ pResult.value.metadata = parse(pContent, "text").value.metadata
       /\ pResult.value.metadata.type = Keyword.text
       /\ \A name \in {"subjects", "styles", "qualities", "settings"} :
            pResult.value.metadata[name] = pResult.value.components[name]

\* A returned structured parse of a broken document in which nothing is
\* detected, and one of a plain text in which a style keyword is detected.
C26_Witness ==
  /\ pPc = "returned" /\ pSourceType = "structured"
  /\ JSONParse(pResult.value.content.str).threw
  /\ pResult.value.metadata.type = Keyword.text
  /\ pResult.value.metadata.styles = <<Word.cinematic>>
  /\ pResult.value.metadata.settings # <<>>

-----------------------------------------------------------------------------
(* Further properties of VeoPromptExporter.exportPrompt (Spec)             *)

\* C21 (as claimed): the content exportPrompt serializes and hands to the
\* storage provider is the transformer's rendering for the requested format:
\* for each of json, txt, csv and xml, the text ExportEngine uploads equals the
\* formatted field of the prompt transform returned, made from the same shaped
\* prompt at the same instant.
C21_UploadedContentIsTheRendering ==
  (/\ classes = "modules"
   /\ Occurred(<<"upload", "resolve">>)
   /\ exportFormat \in SupportedFormatIds)
    => uploadParams(formattedPrompt, exportFormat,
                    enhancementOptions.includeMetadata).content
         = formattedPrompt.formatted

\* C28: a prompt whose validation status is error is not blocked: exportPrompt
\* goes on to transform it and to upload it, fails only if the upload does, and
\* returns a result that carries the export url of the upload.
C28_ErrorStatusDoesNotBlock ==
  (Occurred(<<"validate", "return">>) /\ validationResult.status = "error")
    => /\ pc \in {"transform", "export", "return", "returned", "thrown"}
       /\ pc = "thrown" => Occurred(<<"upload", "reject">>)
       /\ pc \in {"return", "returned"}
            => /\ \E j, k \in 1..Len(trace) :
                    /\ trace[j] = <<"validate", "return">>
                    /\ trace[k] = <<"transform", "return">>
                    /\ j < k /\ Before(<<"export", "call">>, Len(trace) + 1)
                    /\ ~Before(<<"export", "call">>, k)
               /\ Occurred(<<"export", "return">>)
               /\ classes = "modules" => Occurred(<<"upload", "resolve">>)
       /\ pc = "returned"
            => /\ outcome.value.exportedPrompts[1].validationStatus = "error"
               /\ outcome.value.exportUrl = exportResult.url
               /\ outcome.value.exportUrl # Undefined

\* A returned call whose prompt holds forbidden content and was uploaded.
C28_Witness ==
  /\ pc = "returned" /\ outcome.method = "exportPrompt"
  /\ classes = "modules"
  /\ validationResult.status = "error"
  /\ Occurred(<<"upload", "resolve">>)
  /\ outcome.value.summary.errorPrompts = 1
  /\ outcome.value.exportUrl = "https://drive.google.com/file/d/<mock id>/view"

\* The formats the platform's entry of supportedPlatforms lists.
FormatsOf(platform) ==
  LET entry == supportedPlatforms[CHOOSE k \in 1..Len(supportedPlatforms) :
                                    supportedPlatforms[k].id = platform]
  IN  {entry.supportedFormats[j] : j \in 1..Len(entry.supportedFormats)}

\* C29 (as claimed): exportPrompt accepts a pair of a supported platform and a
\* supported format only when the format is listed in the platform's
\* supportedFormats; a call with content and a pair such as runway with csv is
\* rejected before a component of the pipeline is invoked.
C29_FormatMustBeListedForPlatform ==
  (/\ OptionsValidated
   /\ Truthy(options.sourceContent)
   /\ targetPlatform \in SupportedPlatformIds
   /\ exportFormat \in SupportedFormatIds
   /\ exportFormat \notin FormatsOf(targetPlatform))
    => pc = "thrown" /\ trace = <<>>

\* C30: the static rule tables agree.  The platform identifiers exportPrompt
\* accepts are the keys of the validator's validationRules and of the
\* transformer's platformRules, each platform has the same maxLength in both,
\* and the format identifiers exportPrompt accepts are the keys of the
\* transformer's formatRules and of the engine's formatSettings; so a call for
\* an accepted platform or format identifier is served by the entries of that
\* identifier in every component, never by a fallback entry.
C30_RuleTablesAgree ==
  /\ SupportedPlatformIds = DOMAIN validationRules
  /\ SupportedPlatformIds = DOMAIN platformRules
  /\ \A p \in SupportedPlatformIds :
       validationRules[p].maxLength = platformRules[p].maxLength
  /\ SupportedFormatIds = DOMAIN formatRules
  /\ SupportedFormatIds = DOMAIN formatSettings
  /\ (Occurred(<<"parse", "call">>) /\ targetPlatform \in SupportedPlatformIds)
       => /\ targetPlatform \in DOMAIN validationRules \cap DOMAIN platformRules
          /\ RulesFor(targetPlatform).maxLength = platformRules[targetPlatform].maxLength
  /\ (Occurred(<<"parse", "call">>) /\ exportFormat \in SupportedFormatIds)
       => exportFormat \in DOMAIN formatRules \cap DOMAIN formatSettings

C30_Witness ==
  /\ pc = "returned" /\ outcome.method = "exportPrompt"
  /\ classes = "modules"
  /\ Occurred(<<"validate", "return">>)
  /\ Occurred(<<"upload", "resolve">>)
  /\ targetPlatform = "runway" /\ exportFormat = "xml"
  /\ RulesFor(targetPlatform).maxLength = 800
  /\ platformRules[targetPlatform].maxLength = 800
  /\ formatSettings[exportFormat].mimeType = "application/xml"
=============================================================================
